---- MODULE Spec2Model ----
(***************************************************************************)
(* A model of Regular, a per-user recurring-job scheduler.                 *)
(*                                                                         *)
(*   - the queue runner   (jobRunner: addJob, activateQueueHead,           *)
(*                         runQueueHead, run)                              *)
(*   - the scheduler loop (jobScheduler: addDueJobsToQueue, schedule)      *)
(*   - the job store and the configuration watcher (update, remove,        *)
(*     removeAll, loadAll, watchChanges with its debouncer)                *)
(*   - the completion store (saveCompletedJob, getLastCompleted)           *)
(*                                                                         *)
(* Time is counted in whole minutes.  Every goroutine is a process of the  *)
(* model; a step of the model is one stretch of code between two points    *)
(* at which the goroutine takes or releases a lock, sleeps, or waits.      *)
(*                                                                         *)
(* Three specifications share the actions:                                 *)
(*   Spec       the scheduler loop and the queue runner, minute by minute  *)
(*   SpecSched  the scheduler loop with the clock jumping up to an hour    *)
(*   SpecWatch  the configuration tree, the watcher and the job store      *)
(***************************************************************************)
EXTENDS Integers, Sequences, FiniteSets, TLC

\* ------------------------------------------------------------------------
\* Bounds of the model
\* ------------------------------------------------------------------------

\* The clock of the full system stops here.
MaxNow == 1

\* Entries that are ever appended to the queues.
MaxEnq == 2

\* Jumps of the clock when the scheduler loop is looked at on its own.
MaxAdvances == 3

\* Goroutines of the runner that can hold a job at the same time.
NumWorkers == 3

\* ------------------------------------------------------------------------
\* Names
\* ------------------------------------------------------------------------

JobNames == {"a", "b"}

None == "none"

\* The values that stand for nothing: no file, no job, no queue entry, no
\* row, no callback, nobody holding the mutex.
NoFile == [absent |-> TRUE]
NoJob == [name |-> None]
NoEntry == [eid |-> 0]
NoRow == [name |-> None]
NoCallback == [kind |-> None]
Nobody == 0

Workers == 1..NumWorkers

\* ------------------------------------------------------------------------
\* Job configuration
\* ------------------------------------------------------------------------

\* What a config.star can say.  should_run is the kind of predicate the
\* module defines: "always" and "never" are constant, "minute1" is true in
\* calendar minute 1 of every hour, "bad" returns a value that is not a
\* Boolean, "raise" fails when called.
KAlways == [queue |-> "", duplicate |-> FALSE, enable |-> TRUE, jitter |-> 0,
            log |-> TRUE, notify |-> "on-failure", command |-> "cmd1",
            should_run |-> "always"]

KMinute == [queue |-> "shared", duplicate |-> TRUE, enable |-> TRUE,
            jitter |-> 1, log |-> FALSE, notify |-> "always",
            command |-> "cmd2", should_run |-> "minute1"]

KShared == [queue |-> "shared", duplicate |-> FALSE, enable |-> TRUE,
            jitter |-> 0, log |-> TRUE, notify |-> "never",
            command |-> "cmd1", should_run |-> "always"]

KDup == [queue |-> "shared", duplicate |-> TRUE, enable |-> TRUE,
         jitter |-> 1, log |-> FALSE, notify |-> "always",
         command |-> "cmd2", should_run |-> "always"]

KBad == [queue |-> "", duplicate |-> TRUE, enable |-> TRUE, jitter |-> 0,
         log |-> FALSE, notify |-> "on-failure", command |-> "cmd2",
         should_run |-> "bad"]

KRaise == [queue |-> "", duplicate |-> TRUE, enable |-> TRUE, jitter |-> 0,
           log |-> FALSE, notify |-> "on-failure", command |-> "cmd2",
           should_run |-> "raise"]

KDisabled == [queue |-> "", duplicate |-> FALSE, enable |-> FALSE,
              jitter |-> 0, log |-> TRUE, notify |-> "on-failure",
              command |-> "cmd1", should_run |-> "always"]

\* A config.star that binds False to the name enabled and leaves the other
\* settings at the values of KAlways.
KEnabledFalse == [queue |-> "", duplicate |-> FALSE, enable |-> TRUE,
                  jitter |-> 0, log |-> TRUE, notify |-> "on-failure",
                  command |-> "cmd1", should_run |-> "always",
                  enabled |-> FALSE]

\* A config.star whose should_run is true when the last completion of the
\* job is at least a day old or the job has never run; it forbids
\* duplicates and has a queue of its own.
KStale == [queue |-> "", duplicate |-> FALSE, enable |-> TRUE, jitter |-> 0,
           log |-> FALSE, notify |-> "never", command |-> "cmd1",
           should_run |-> "stale"]

\* A config.star that binds a new mapping to the name env and leaves the
\* other settings at the values of KAlways.
KNewEnv == [queue |-> "", duplicate |-> FALSE, enable |-> TRUE, jitter |-> 0,
            log |-> TRUE, notify |-> "on-failure", command |-> "cmd1",
            should_run |-> "always",
            env |-> ("BAR" :> "new-bar") @@ ("BAZ" :> "baz")]

\* A config.star that assigns to an entry of the mapping env it was given
\* and leaves the other settings at the values of KAlways.
KSetEnv == [queue |-> "", duplicate |-> FALSE, enable |-> TRUE, jitter |-> 0,
            log |-> TRUE, notify |-> "on-failure", command |-> "cmd1",
            should_run |-> "always", setenv |-> ("MODE" :> "module")]

Contents == {KAlways, KMinute, KShared, KDup, KBad, KRaise, KDisabled,
             KEnabledFalse, KNewEnv, KSetEnv, KStale}

\* A config.star that does not evaluate.
Broken == [broken |-> TRUE]

\* Every job has the queue of its own name.
QueueNameOwn(job) == job.name

\* JobConfig.QueueName: the queue of a job is its name when queue is empty.
QueueName(job) == IF job.queue = "" THEN job.name ELSE job.queue

QueueNames == JobNames \cup {"shared"}

\* ------------------------------------------------------------------------
\* State
\* ------------------------------------------------------------------------

VARIABLES
  now,       \* the wall clock, in minutes
  advances,  \* how many times the clock has been moved
  files,     \* the configuration tree: the config.star of each job
  envFiles,  \* the env files: global.env and the job.env of each job
  writes,    \* how many times the configuration tree has been changed
  byName,    \* the job maps on the heap: map reference -> name -> JobConfig
  watchRef,  \* the map the watcher's jobScheduler value points to
  events,    \* the watcher's event channel
  pending,   \* the callback the debouncer's timer holds
  handlers,  \* the goroutines running a debounced callback
  failed,    \* history: the jobs whose debounced update failed, with no
             \* load of the job stored since handleUpdate returned
  sched,     \* the scheduler loop: its position and its locals
  evals,     \* history: the predicate calls made, <<name, t, k>> the k-th at t
  queues,    \* jobRunner.queues: queue name -> jobQueue
  mu,        \* jobRunner.mu: the worker that holds it, or Nobody
  workers,   \* the goroutines of runQueueHead that hold a job
  db,        \* the database: the rows of completed_jobs and of job_logs, in
             \* the order of their insertion
  nextEid,   \* history: the number of entries ever appended to a queue
  done,      \* history: per queue, the newest entry executed, when it finished,
             \* and the newest entry whose saveCompletedJob has returned
  notified,  \* history: per job, the entry the notifier was last called for
  stateDir   \* the state directory of each job: its two log files and, as
             \* history, the entry whose execution opened them last

vars == <<now, advances, files, envFiles, writes, byName, watchRef, events, pending, handlers,
          failed, sched, evals, queues, mu, workers, db, nextEid, done,
          notified, stateDir>>

clock == <<now, advances>>
fsVars == <<files, envFiles, writes, events>>
watchVars == <<byName, watchRef, pending, handlers, failed>>
schedVars == <<sched, evals>>
runVars == <<queues, mu, workers, db, nextEid, done, notified, stateDir>>

\* The scheduler loop keeps the map it was started with.
SchedRef == 0

\* ------------------------------------------------------------------------
\* The queue runner
\* ------------------------------------------------------------------------

newJobQueue == [activeJob |-> FALSE, jobs |-> <<>>]

Max(x, y) == IF x >= y THEN x ELSE y

\* A log file that does not exist.
MissingFile == [state |-> "missing", lines |-> <<>>]

\* A log file that exists and holds the lines.
LogFile(lines) == [state |-> "ok", lines |-> lines]

\* A log file that cannot be opened or read.
UnreadableFile == [state |-> "unreadable", lines |-> <<>>]

NoFiles == [stdout |-> MissingFile, stderr |-> MissingFile]

\* Both log files made, nothing written to them.
QuietFiles == [stdout |-> LogFile(<<>>), stderr |-> LogFile(<<>>)]

\* What a command may leave in the two log files, and what may become of
\* the files before they are read.
Outputs ==
  {[stdout |-> LogFile(<<"l1", "l2">>), stderr |-> LogFile(<<"e1">>)],
   [stdout |-> LogFile(<<"l3">>), stderr |-> LogFile(<<>>)],
   [stdout |-> LogFile(<<"l1", "l2">>), stderr |-> UnreadableFile]}

\* State directories that hold no log file; no execution has opened one.
NoStateDir == [n \in JobNames |-> [files |-> NoFiles, by |-> 0]]

\* The log files of a job whose command writes nothing: made when log is
\* set, absent when not.
FilesAfter(job) == IF job.log THEN QuietFiles ELSE NoFiles

IdleWorker == [pc |-> "idle", q |-> None, entry |-> NoEntry, started |-> 0,
               finished |-> 0, exit |-> 0, error |-> "", files |-> NoFiles,
               saveErr |-> FALSE, notifyErr |-> FALSE, returned |-> "",
               copy |-> newJobQueue]

\* A scan that leaves out the entry being executed.
QueueHasNameWaitingOnly(queue, job) ==
  \E i \in 1..Len(queue.jobs) :
    /\ queue.jobs[i].job.name = job.name
    /\ ~(queue.activeJob /\ i = 1)

\* addJob's scan of the queue for an entry of the same name.
QueueHasName(queue, job) ==
  \E i \in 1..Len(queue.jobs) : queue.jobs[i].job.name = job.name

\* addJob puts the new entry first.
PutFirst(jobs, entry) == <<entry>> \o jobs

\* queue.jobs = append(queue.jobs, job)
Put(jobs, entry) == Append(jobs, entry)

\* The queues after addJob(job).  The entry it appends carries, as history,
\* its number eid and the instant t the predicate was evaluated for.
addJob(qs, job, eid, t) ==
  LET queueName == QueueName(job)
      made == IF queueName \in DOMAIN qs
              THEN qs
              ELSE qs @@ (queueName :> newJobQueue)
      queue == made[queueName]
  IN  IF ~job.duplicate /\ QueueHasName(queue, job)
      THEN made
      ELSE [made EXCEPT ![queueName].jobs =
                          Put(@, [job |-> job, eid |-> eid, at |-> t])]

\* Whether addJob(job) appends an entry.
Appends(qs, job) ==
  LET queueName == QueueName(job)
  IN  \/ queueName \notin DOMAIN qs
      \/ job.duplicate
      \/ ~QueueHasName(qs[queueName], job)

\* activateQueueHead leaves the head alone while any queue is active.
HeadFreeWhenAllIdle(queue) ==
  /\ ~(queue.activeJob \/ Len(queue.jobs) = 0)
  /\ \A p \in DOMAIN queues : ~queues[p].activeJob

\* activateQueueHead takes the head whatever the active flag says.
HeadFreeIgnoringActive(queue) == Len(queue.jobs) # 0

\* activateQueueHead's test: the queue is not active and not empty.
HeadFree(queue) == ~(queue.activeJob \/ Len(queue.jobs) = 0)

\* queue.jobs = queue.jobs[1:]
DropHead(jobs) == IF Len(jobs) = 0 THEN jobs ELSE Tail(jobs)

\* The idle worker of the least number: goroutines are interchangeable.
FreeWorker == CHOOSE w \in Workers :
                /\ workers[w].pc = "idle"
                /\ \A v \in Workers : workers[v].pc = "idle" => w <= v

\* What a command can end with: exit status 0, a non-zero exit status, or
\* a failure to start (an error that is no exec.ExitError).
Outcomes == {"ok", "exit7"}

ExitStatusOf(o) == IF o = "exit7" THEN 7 ELSE 0

ErrorOf(o) == CASE o = "ok" -> ""
                [] o = "exit7" -> "exit status 7"
                [] OTHER -> "no such file"

\* The outcomes of runCommand, that of a command that cannot be started
\* included.
AllOutcomes == Outcomes \cup {"nostart"}

\* Success judged by the exit status alone.
IsSuccessByExit(cj) == cj.exit = 0

\* CompletedJob.IsSuccess
IsSuccess(cj) == cj.exit = 0 /\ cj.error = ""

\* notifyIfNeeded: whether the notifier is called.
NotifyNeeded(mode, cj) ==
  /\ mode # "never"
  /\ (mode = "always" \/ (mode = "on-failure" /\ ~IsSuccess(cj)))

\* ORDER BY id ASC LIMIT 1.
FirstId(ids) == CHOOSE i \in ids : \A j \in ids : i <= j

\* ORDER BY id DESC LIMIT 1.
LastId(ids) == CHOOSE i \in ids : \A j \in ids : j <= i

\* The ids of the rows of completed_jobs WHERE job_name = name.
IdsOf(table, name) ==
  {table.jobs[i].id : i \in {k \in 1..Len(table.jobs) :
                                table.jobs[k].name = name}}

\* The row of completed_jobs with the id.
JobRow(table, id) ==
  table.jobs[CHOOSE i \in 1..Len(table.jobs) : table.jobs[i].id = id]

\* getLastCompleted: of the rows with the name the one with the greatest
\* id, or nothing when there is none.
getLastCompleted(table, name) ==
  IF IdsOf(table, name) = {} THEN NoRow
  ELSE JobRow(table, LastId(IdsOf(table, name)))

\* LIMIT n of a sequence.
Limit(seq, n) == SubSeq(seq, 1, IF n < Len(seq) THEN n ELSE Len(seq))

RECURSIVE SortedBy(_, _)
\* ORDER BY line_number of a set of job_logs rows: ascending when up is
\* true, descending when not.
SortedBy(rows, up) ==
  IF rows = {} THEN <<>>
  ELSE LET r == CHOOSE x \in rows :
                  \A y \in rows : IF up THEN x.line_number <= y.line_number
                                         ELSE x.line_number >= y.line_number
       IN <<r>> \o SortedBy(rows \ {r}, up)

\* The range of a sequence.
Range(seq) == {seq[i] : i \in 1..Len(seq)}

\* The inner query without the restriction to the newest completed job.
LinesOfAllRuns(table, name, stream, limit) ==
  Limit(SortedBy({r \in Range(table.logs) :
                    /\ r.log_name = stream
                    /\ r.completed_job_id \in IdsOf(table, name)},
                 FALSE),
        limit)

\* The inner query of getJobLogs: the rows of the stream that belong to the
\* newest completed job of the name, by line number downwards, at most
\* limit of them.
NewestLines(table, name, stream, limit) ==
  IF IdsOf(table, name) = {} THEN <<>>
  ELSE Limit(SortedBy({r \in Range(table.logs) :
                         /\ r.log_name = stream
                         /\ r.completed_job_id = LastId(IdsOf(table, name))},
                      FALSE),
             limit)

\* getJobLogs: the lines of the inner query by line number upwards.
getJobLogs(table, name, stream, limit) ==
  LET rows == SortedBy(Range(NewestLines(table, name, stream, limit)), TRUE)
  IN [i \in 1..Len(rows) |-> rows[i].line]

\* run starts, at every tick, one goroutine running runQueueHead for each
\* queue name it finds under the mutex.  Queues are never deleted and the
\* ticks never end, so at any time a goroutine may enter runQueueHead for
\* any queue that exists.
\*
\* runQueueHead, when activateQueueHead returns no job: the queue is active
\* or empty, and the goroutine ends.
RunQueueHeadNone(q) ==
  /\ mu = Nobody
  /\ q \in DOMAIN queues
  /\ ~HeadFree(queues[q])
  /\ UNCHANGED vars

\* The head of the queue as a worker would find it if the queue held
\* references into the job store and not copies.
HeadFromStore(queue) ==
  [queue.jobs[1] EXCEPT !.job = IF byName[SchedRef][@.name] # NoJob
                                 THEN byName[SchedRef][@.name]
                                 ELSE @]

\* activateQueueHead: job := queue.jobs[0] copies the JobConfig value that
\* addJob appended.
HeadCopy(queue) == queue.jobs[1]

\* runQueueHead, when activateQueueHead returns the head: under the mutex
\* it raises activeJob and copies the head, which stays in the queue.
RunQueueHeadActivate(q) ==
  /\ mu = Nobody
  /\ q \in DOMAIN queues
  /\ HeadFree(queues[q])
  /\ \E w \in Workers : workers[w].pc = "idle"
  /\ queues' = [queues EXCEPT ![q].activeJob = TRUE]
  /\ workers' = [workers EXCEPT ![FreeWorker] =
                   [IdleWorker EXCEPT !.pc = "active", !.q = q,
                                      !.entry = HeadCopy(queues[q])]]
  /\ UNCHANGED <<clock, fsVars, watchVars, schedVars, mu, db, nextEid, done,
                 notified, stateDir>>

\* runQueueHead after the jitter sleep: Started is taken from the clock and
\* the command is started.  A job without log opens no file.
StartJob(w) ==
  /\ workers[w].pc = "active"
  /\ workers' = [workers EXCEPT ![w].pc = "run", ![w].started = now]
  /\ UNCHANGED <<clock, fsVars, watchVars, schedVars, queues, mu, db,
                 nextEid, done, notified, stateDir>>

\* runQueueHead when the state directory or a log file cannot be made: it
\* returns the error at once.
StartJobLogError(w) ==
  /\ workers[w].pc = "active"
  /\ workers[w].entry.job.log
  /\ workers' = [workers EXCEPT ![w] = IdleWorker]
  /\ UNCHANGED <<clock, fsVars, watchVars, schedVars, queues, mu, db,
                 nextEid, done, notified, stateDir>>

\* runCommand returns: Error, ExitStatus and Finished are filled in; fs is
\* what the log files of the job hold by then.
FinishJobWith(w, o, fs) ==
  /\ workers[w].pc = "run"
  /\ workers' = [workers EXCEPT ![w].pc = "fin", ![w].finished = now,
                                ![w].exit = ExitStatusOf(o),
                                ![w].error = ErrorOf(o),
                                ![w].files = fs]
  /\ done' = [done EXCEPT ![workers[w].q] =
                 [@ EXCEPT !.eid = Max(@, workers[w].entry.eid),
                           !.finished = Max(@, now)]]
  /\ UNCHANGED <<clock, fsVars, watchVars, schedVars, queues, mu, db,
                 nextEid, notified, stateDir>>

\* runCommand returns from a command that writes nothing.
FinishJob(w, o) == FinishJobWith(w, o, FilesAfter(workers[w].entry.job))

\* runCommand returns from a command of a job with log set.
FinishJobLogged(w, o, fs) ==
  /\ workers[w].pc = "run"
  /\ workers[w].entry.job.log
  /\ FinishJobWith(w, o, fs)

\* r.mu.Lock() that leaves the mutex free.
muLockNotHeld(w) == Nobody

\* r.mu.Lock(): the holder of the mutex once Lock has returned.
muLock(w) == w

\* r.mu.Unlock() that leaves the mutex with the worker.
muUnlockKept(w) == w

\* r.mu.Unlock(): the holder of the mutex once Unlock has returned.
muUnlock(w) == Nobody

\* runQueueHead takes the mutex, lowers activeJob and removes the head.
ReleaseQueue(w) ==
  /\ workers[w].pc = "fin"
  /\ mu = Nobody
  /\ mu' = muLock(w)
  /\ queues' = IF workers[w].q \in DOMAIN queues
               THEN [queues EXCEPT ![workers[w].q].activeJob = FALSE,
                                   ![workers[w].q].jobs = DropHead(@)]
               ELSE queues
  /\ workers' = [workers EXCEPT ![w].pc = "locked"]
  /\ UNCHANGED <<clock, fsVars, watchVars, schedVars, db, nextEid,
                 done, notified, stateDir>>

\* The runner of src/jobrunner.go, which reads the queue under the read
\* lock.  runQueueHead copies the jobQueue value out of the map under
\* RLock, tests the copy with no lock held, and takes the head off the
\* copy.
RunQueueHeadCopy(q) ==
  /\ q \in DOMAIN queues
  /\ HeadFree(queues[q])
  /\ \E w \in Workers : workers[w].pc = "idle"
  /\ workers' = [workers EXCEPT ![FreeWorker] =
                   [IdleWorker EXCEPT !.pc = "picked", !.q = q,
                      !.entry = HeadCopy(queues[q]),
                      !.copy = [queues[q] EXCEPT !.jobs = DropHead(@)]]]
  /\ UNCHANGED <<clock, fsVars, watchVars, schedVars, queues, mu, db,
                 nextEid, done, notified, stateDir>>

\* The same runQueueHead: under the write lock it raises activeJob in its
\* copy and puts the copy in the map; the command is started.
RunQueueHeadWriteBack(w) ==
  /\ workers[w].pc = "picked"
  /\ queues' = [queues EXCEPT ![workers[w].q] =
                  [workers[w].copy EXCEPT !.activeJob = TRUE]]
  /\ workers' = [workers EXCEPT ![w].pc = "script", ![w].started = now]
  /\ UNCHANGED <<clock, fsVars, watchVars, schedVars, mu, db, nextEid, done,
                 notified, stateDir>>

\* The same runQueueHead when the script has returned: under the write lock
\* it reads the queue from the map again, lowers activeJob and puts the
\* queue back.
RunQueueHeadLower(w) ==
  /\ workers[w].pc = "script"
  /\ queues' = [queues EXCEPT ![workers[w].q].activeJob = FALSE]
  /\ done' = [done EXCEPT ![workers[w].q] =
                 [@ EXCEPT !.eid = Max(@, workers[w].entry.eid),
                           !.finished = Max(@, now)]]
  /\ workers' = [workers EXCEPT ![w] = IdleWorker]
  /\ UNCHANGED <<clock, fsVars, watchVars, schedVars, mu, db, nextEid,
                 notified, stateDir>>

\* The row saveCompletedJob inserts: the id is one more than the greatest
\* in the table (INTEGER PRIMARY KEY, and no row is ever deleted).
RowOf(table, wk) ==
  [id |-> Len(table.jobs) + 1, name |-> wk.entry.job.name,
   error |-> wk.error, exit |-> wk.exit, started |-> wk.started,
   finished |-> wk.finished, eid |-> wk.entry.eid]

\* saveLogFile: the job_logs rows it inserts, numbered from 1.  A file that
\* does not exist or cannot be read inserts none.
LogRows(id, stream, file) ==
  [i \in 1..Len(file.lines) |->
     [completed_job_id |-> id, log_name |-> stream, line_number |-> i,
      line |-> file.lines[i]]]

\* saveLogFile: whether it returns an error.  A file that does not exist
\* is passed over; a file that cannot be opened or read is an error.
LogFileFails(file) == file.state = "unreadable"

\* A save that keeps one row for each job: the new row takes the place of
\* the rows of its name.
StagedReplacing(table, wk) ==
  [jobs |-> SelectSeq(table.jobs, LAMBDA r : r.name # wk.entry.job.name)
              \o <<[id |-> Len(table.jobs) + 1, name |-> wk.entry.job.name,
                    error |-> wk.error, exit |-> wk.exit,
                    started |-> wk.started, finished |-> wk.finished,
                    eid |-> wk.entry.eid]>>,
   logs |-> table.logs]

\* What the transaction of saveCompletedJob has written when it comes to
\* its end: the row, the lines of stdout, and the lines of stderr unless
\* stdout has failed.
Staged(table, wk) ==
  [jobs |-> Append(table.jobs, RowOf(table, wk)),
   logs |-> table.logs
              \o LogRows(Len(table.jobs) + 1, "stdout", wk.files.stdout)
              \o (IF LogFileFails(wk.files.stdout) THEN <<>>
                  ELSE LogRows(Len(table.jobs) + 1, "stderr",
                               wk.files.stderr))]

\* A rollback that undoes the log lines and leaves the row.
RollbackLogsOnly(table, staged) == [staged EXCEPT !.logs = table.logs]

\* tx.Rollback(): everything the transaction has written is undone.
Rollback(table, staged) == table

\* The rest of runQueueHead, all of it under the mutex: saveCompletedJob
\* commits its transaction, notifyIfNeeded calls the notifier when the mode
\* asks for it, the mutex is released and runQueueHead returns.
SaveCompletedJob(w) ==
  /\ workers[w].pc = "locked"
  /\ ~LogFileFails(workers[w].files.stdout)
  /\ ~LogFileFails(workers[w].files.stderr)
  /\ db' = Staged(db, workers[w])
  /\ notified' = IF NotifyNeeded(workers[w].entry.job.notify, workers[w])
                 THEN [notified EXCEPT ![workers[w].entry.job.name] =
                                          workers[w].entry.eid]
                 ELSE notified
  /\ done' = [done EXCEPT ![workers[w].q].attempted =
                                Max(@, workers[w].entry.eid)]
  /\ mu' = muUnlock(w)
  /\ workers' = [workers EXCEPT ![w] = IdleWorker]
  /\ UNCHANGED <<clock, fsVars, watchVars, schedVars, queues, nextEid, stateDir>>

\* The same when saveCompletedJob fails, be it for a log file or for the
\* database: the transaction is rolled back, and the notifier is called as
\* before.
SaveCompletedJobError(w) ==
  /\ workers[w].pc = "locked"
  /\ db' = Rollback(db, Staged(db, workers[w]))
  /\ notified' = IF NotifyNeeded(workers[w].entry.job.notify, workers[w])
                 THEN [notified EXCEPT ![workers[w].entry.job.name] =
                                          workers[w].entry.eid]
                 ELSE notified
  /\ done' = [done EXCEPT ![workers[w].q].attempted =
                                Max(@, workers[w].entry.eid)]
  /\ mu' = muUnlock(w)
  /\ workers' = [workers EXCEPT ![w] = IdleWorker]
  /\ UNCHANGED <<clock, fsVars, watchVars, schedVars, queues, nextEid, stateDir>>

\* Log files an execution of an earlier run of the service has left in a
\* state directory.
StaleFiles == [stdout |-> LogFile(<<"old1", "old2">>),
               stderr |-> LogFile(<<"olderr">>)]

\* runQueueHead after the jitter sleep, with the state directory: a job
\* with log set has its two log files made or truncated; for a job without
\* log no file is opened and the state directory is left as it is.
StartJobOpenLogs(w) ==
  /\ workers[w].pc = "active"
  /\ workers' = [workers EXCEPT ![w].pc = "run", ![w].started = now]
  /\ stateDir' = IF workers[w].entry.job.log
                 THEN [stateDir EXCEPT ![workers[w].entry.job.name] =
                         [files |-> QuietFiles, by |-> workers[w].entry.eid]]
                 ELSE stateDir
  /\ UNCHANGED <<clock, fsVars, watchVars, schedVars, queues, mu, db,
                 nextEid, done, notified>>

\* runCommand returns: what the command wrote is in the log files of a job
\* with log set; the output of a job without log is discarded.
FinishJobWriteLogs(w, o, fs) ==
  /\ workers[w].pc = "run"
  /\ workers[w].entry.job.log \/ fs = NoFiles
  /\ workers' = [workers EXCEPT ![w].pc = "fin", ![w].finished = now,
                                ![w].exit = ExitStatusOf(o),
                                ![w].error = ErrorOf(o)]
  /\ stateDir' = IF workers[w].entry.job.log
                 THEN [stateDir EXCEPT ![workers[w].entry.job.name] =
                         [files |-> fs, by |-> workers[w].entry.eid]]
                 ELSE stateDir
  /\ done' = [done EXCEPT ![workers[w].q] =
                 [@ EXCEPT !.eid = Max(@, workers[w].entry.eid),
                           !.finished = Max(@, now)]]
  /\ UNCHANGED <<clock, fsVars, watchVars, schedVars, queues, mu, db,
                 nextEid, notified>>

\* saveCompletedJob is given the paths of the two log files whatever log
\* says and reads what is in the state directory at that moment; the
\* notifier is called and the mutex given back.
SaveCompletedJobReadLogs(w) ==
  /\ workers[w].pc = "locked"
  /\ LET wk == [workers[w] EXCEPT
                  !.files = stateDir[workers[w].entry.job.name].files]
     IN db' = IF LogFileFails(wk.files.stdout) \/ LogFileFails(wk.files.stderr)
              THEN Rollback(db, Staged(db, wk))
              ELSE Staged(db, wk)
  /\ notified' = IF NotifyNeeded(workers[w].entry.job.notify, workers[w])
                 THEN [notified EXCEPT ![workers[w].entry.job.name] =
                                          workers[w].entry.eid]
                 ELSE notified
  /\ done' = [done EXCEPT ![workers[w].q].attempted =
                                Max(@, workers[w].entry.eid)]
  /\ mu' = muUnlock(w)
  /\ workers' = [workers EXCEPT ![w] = IdleWorker]
  /\ UNCHANGED <<clock, fsVars, watchVars, schedVars, queues, nextEid,
                 stateDir>>

\* The error of the command comes first.
ReportedRunFirst(runErr, saveErr, notifyErr) ==
  IF runErr THEN "run" ELSE IF saveErr THEN "save"
  ELSE IF notifyErr THEN "notify" ELSE ""

\* The end of runQueueHead: which of the three errors it returns, "" for
\* nil.
Reported(runErr, saveErr, notifyErr) ==
  IF notifyErr THEN "notify" ELSE IF saveErr THEN "save"
  ELSE IF runErr THEN "run" ELSE ""

\* saveCompletedJob and notifyIfNeeded under the mutex, told apart by what
\* they return: saveErr is whether the save fails (it does when a log file
\* cannot be read), notifyErr whether the notifier, if called, fails.  The
\* mutex is released, and the worker is left before the tests of the three
\* errors.
SaveAndNotify(w, saveErr, notifyErr) ==
  /\ workers[w].pc = "locked"
  /\ (LogFileFails(workers[w].files.stdout)
        \/ LogFileFails(workers[w].files.stderr)) => saveErr
  /\ notifyErr => NotifyNeeded(workers[w].entry.job.notify, workers[w])
  /\ db' = IF saveErr THEN Rollback(db, Staged(db, workers[w]))
           ELSE Staged(db, workers[w])
  /\ notified' = IF NotifyNeeded(workers[w].entry.job.notify, workers[w])
                 THEN [notified EXCEPT ![workers[w].entry.job.name] =
                                          workers[w].entry.eid]
                 ELSE notified
  /\ done' = [done EXCEPT ![workers[w].q].attempted =
                                Max(@, workers[w].entry.eid)]
  /\ mu' = muUnlock(w)
  /\ workers' = [workers EXCEPT ![w].pc = "unlocked",
                                ![w].saveErr = saveErr,
                                ![w].notifyErr = notifyErr]
  /\ UNCHANGED <<clock, fsVars, watchVars, schedVars, queues, nextEid, stateDir>>

\* runQueueHead after the mutex is released: it picks the error to return.
PickError(w) ==
  /\ workers[w].pc = "unlocked"
  /\ workers' = [workers EXCEPT ![w].pc = "return",
                    ![w].returned = Reported(workers[w].error # "",
                                             workers[w].saveErr,
                                             workers[w].notifyErr)]
  /\ UNCHANGED <<clock, fsVars, watchVars, schedVars, queues, mu, db,
                 nextEid, done, notified, stateDir>>

\* withLog logs what runQueueHead returned, and the goroutine ends.
LogReturned(w) ==
  /\ workers[w].pc = "return"
  /\ workers' = [workers EXCEPT ![w] = IdleWorker]
  /\ UNCHANGED <<clock, fsVars, watchVars, schedVars, queues, mu, db,
                 nextEid, done, notified, stateDir>>

\* ------------------------------------------------------------------------
\* The scheduler loop
\* ------------------------------------------------------------------------

\* maxMissedTime, one hour, in minutes.
MaxMissedTime == 60

\* The calendar minute (0-59) of an instant.
CalendarMinute(t) == t % 60

\* one_day, in minutes.
OneDay == 1440

\* The value should_run returns for the arguments made from t and from the
\* last completion: "true", "false", "bad" (no Boolean) or "raise".  The
\* predicate "stale" is timestamp - finished >= one_day, finished being -1
\* for a job that has no completion.
ShouldRun(job, t, lc) ==
  CASE job.should_run = "always" -> "true"
    [] job.should_run = "never" -> "false"
    [] job.should_run = "minute1" ->
         IF CalendarMinute(t) = 1 THEN "true" ELSE "false"
    [] job.should_run = "stale" ->
         IF lc = NoRow \/ t - lc.finished >= OneDay THEN "true" ELSE "false"
    [] job.should_run = "bad" -> "bad"
    [] OTHER -> "raise"

\* How often the predicate of the job has been called for instant t.
EvalCount(name, t) == Cardinality({e \in evals : e[1] = name /\ e[2] = t})

\* The catch-up loop starts at last whatever time has passed.
CatchUpFromLast(last, current) == last

\* schedule: where the catch-up loop starts.  After more than maxMissedTime
\* it starts at current, so that nothing is caught up.
CatchUpFrom(last, current) ==
  IF current - last > MaxMissedTime THEN current ELSE last

\* The loop steps over every other minute.
NextMinuteSkipping(t) == t + 2

\* t = t.Add(time.Minute)
NextMinute(t) == t + 1

\* The scheduler goroutine: its position, the locals last, current and t of
\* schedule, the end of the catch-up loop, what addDueJobsToQueue has yet to
\* range over, the job and the last completion addToQueueIfDue works on;
\* prev is history, the instant of the tick before the latest.
IdleSched == [pc |-> "start", prev |-> 0, last |-> 0, current |-> 0,
              t |-> 0, until |-> 0, todo |-> {}, job |-> NoJob, lc |-> NoRow]

\* Whether the scheduler loop holds the read lock of the job store.
SchedHoldsRLock == sched.pc \in {"range", "call"}

\* schedule: the first step evaluates every job for the current time.
SchedStart ==
  /\ sched.pc = "start"
  /\ sched' = [sched EXCEPT !.pc = "loop", !.prev = now, !.last = now,
                            !.current = now, !.t = now, !.until = now + 1]
  /\ UNCHANGED <<clock, fsVars, watchVars, evals, runVars>>

\* schedule: the ticker fires.  last and current move on, and the catch-up
\* loop is set up for [last, current).
SchedTick ==
  /\ sched.pc = "wait"
  /\ now > sched.current
  /\ LET from == CatchUpFrom(sched.current, now)
     IN  sched' = [sched EXCEPT !.prev = sched.current, !.last = from,
                                !.current = now, !.t = from,
                                !.until = now,
                                !.pc = IF from < now THEN "loop" ELSE "wait"]
  /\ UNCHANGED <<clock, fsVars, watchVars, evals, runVars>>

\* addDueJobsToQueue(t) takes the read lock and starts ranging over the map.
SchedLock ==
  /\ sched.pc = "loop"
  /\ sched' = [sched EXCEPT !.pc = "range",
                 !.todo = {n \in JobNames : byName[SchedRef][n] # NoJob}]
  /\ UNCHANGED <<clock, fsVars, watchVars, evals, runVars>>

\* addToQueueIfDue of a job that is not enabled returns at once.
SchedSkipDisabled(n) ==
  /\ sched.pc = "range"
  /\ n \in sched.todo
  /\ ~byName[SchedRef][n].enable
  /\ sched' = [sched EXCEPT !.todo = @ \ {n}]
  /\ UNCHANGED <<clock, fsVars, watchVars, evals, runVars>>

\* addToQueueIfDue reads the last completion of the job.
SchedRead(n) ==
  /\ sched.pc = "range"
  /\ n \in sched.todo
  /\ byName[SchedRef][n].enable
  /\ sched' = [sched EXCEPT !.pc = "call", !.job = byName[SchedRef][n],
                            !.lc = getLastCompleted(db, n)]
  /\ UNCHANGED <<clock, fsVars, watchVars, evals, runVars>>

\* addToQueueIfDue when the database fails to answer for the last
\* completion: the error goes up through addDueJobsToQueue, which drops the
\* read lock, and out of schedule.  The goroutine of the scheduler loop
\* logs it and ends; nothing starts the loop again.
SchedReadError(n) ==
  /\ sched.pc = "range"
  /\ n \in sched.todo
  /\ byName[SchedRef][n].enable
  /\ sched' = [sched EXCEPT !.pc = "stopped", !.todo = {}, !.job = NoJob,
                            !.lc = NoRow]
  /\ UNCHANGED <<clock, fsVars, watchVars, evals, runVars>>

\* The predicate call that sched.job is about to make.
SchedResult == ShouldRun(sched.job, sched.t, sched.lc)

Evaluated == evals \cup {<<sched.job.name, sched.t,
                           EvalCount(sched.job.name, sched.t) + 1>>}

\* Every value that is truthy counts as True.
Truthy(result) == result \in {"true", "bad"}

\* result == starlark.True
IsTrue(result) == result = "true"

\* addToQueueIfDue: should_run returned True, and addJob is called.
SchedCallTrue ==
  /\ sched.pc = "call"
  /\ IsTrue(SchedResult)
  /\ mu = Nobody
  /\ Appends(queues, sched.job) => nextEid < MaxEnq
  /\ queues' = addJob(queues, sched.job, nextEid + 1, sched.t)
  /\ nextEid' = IF Appends(queues, sched.job) THEN nextEid + 1 ELSE nextEid
  /\ evals' = Evaluated
  /\ sched' = [sched EXCEPT !.pc = "range", !.todo = @ \ {sched.job.name},
                            !.job = NoJob, !.lc = NoRow]
  /\ UNCHANGED <<clock, fsVars, watchVars, mu, workers, db, done,
                 notified, stateDir>>

\* addToQueueIfDue: should_run returned False.
SchedCallFalse ==
  /\ sched.pc = "call"
  /\ SchedResult = "false"
  /\ evals' = Evaluated
  /\ sched' = [sched EXCEPT !.pc = "range", !.todo = @ \ {sched.job.name},
                            !.job = NoJob, !.lc = NoRow]
  /\ UNCHANGED <<clock, fsVars, watchVars, runVars>>

\* addToQueueIfDue: should_run failed or returned no Boolean.  The error
\* goes up through addDueJobsToQueue, which drops the read lock, and out of
\* schedule: the scheduler goroutine ends.
SchedCallError ==
  /\ sched.pc = "call"
  /\ SchedResult \in {"bad", "raise"}
  /\ evals' = Evaluated
  /\ sched' = [sched EXCEPT !.pc = "stopped", !.todo = {}, !.job = NoJob,
                            !.lc = NoRow]
  /\ UNCHANGED <<clock, fsVars, watchVars, runVars>>

\* addDueJobsToQueue(t) has ranged over the whole map and drops the read
\* lock; the catch-up loop goes on to the next minute or waits for a tick.
SchedUnlock ==
  /\ sched.pc = "range"
  /\ sched.todo = {}
  /\ sched' = IF NextMinute(sched.t) < sched.until
              THEN [sched EXCEPT !.pc = "loop", !.t = NextMinute(sched.t)]
              ELSE [sched EXCEPT !.pc = "wait"]
  /\ UNCHANGED <<clock, fsVars, watchVars, evals, runVars>>

\* A minute passes.
AdvanceClock ==
  /\ now < MaxNow
  /\ now' = now + 1
  /\ advances' = advances + 1
  /\ UNCHANGED <<fsVars, watchVars, schedVars, runVars>>

\* The gaps the clock jumps by when the process is held up: a minute, or an
\* hour as after a suspension.
Gaps == {1, 60}

\* The process does not run for d minutes.
AdvanceClockBy(d) ==
  /\ advances < MaxAdvances
  /\ now' = now + d
  /\ advances' = advances + 1
  /\ UNCHANGED <<fsVars, watchVars, schedVars, runVars>>

\* ------------------------------------------------------------------------
\* The job store and the configuration watcher
\* ------------------------------------------------------------------------

\* The capacity of the watcher's event channel.
EventCap == 1

\* Changes made to the configuration tree while the program runs.
MaxWrites == 2

\* Goroutines that can run a debounced callback at the same time.
NumHandlers == 2

Handlers == 1..NumHandlers

\* A goroutine running a debounced callback: its position, whether it runs
\* handleUpdate ("update") or the reload after global.env changed ("all"),
\* the map its copy of the jobScheduler points to, the job it works on, what
\* it has loaded, and the config.star files loadAll has yet to visit.
IdleHandler == [pc |-> "idle", kind |-> None, ref |-> 0, name |-> None,
                loaded |-> NoJob, rest |-> <<>>, res |-> None]

\* The name of the variable that holds the job directory.
JobDirEnvVar == "REGULAR_JOB_DIR"

\* jobDir: the directory of the job under the configuration root.
JobDirOf == [n \in JobNames |-> IF n = "a" THEN "/cfg/a" ELSE "/cfg/b"]

\* denv.OS(): the environment of the process.
ProcessEnv ==
  ("HOME" :> "/home/u") @@ ("MODE" :> "process")
    @@ (JobDirEnvVar :> "/elsewhere")

EmptyEnv == [k \in {} |-> ""]

\* The lines of an env file: KEY=value, KEY=${REF}, and a line without =.
Line(k, v) == [key |-> k, value |-> v, ref |-> None]
RefLine(k, r) == [key |-> k, value |-> "", ref |-> r]
BadLine == [key |-> None, value |-> "", ref |-> None]

\* An env file that does not exist, and one with the lines.
NoEnvFile == [state |-> "missing", lines |-> <<>>]
EnvFile(lines) == [state |-> "ok", lines |-> lines]

\* No env file anywhere under the configuration root.
NoEnvFiles == [global |-> NoEnvFile, job |-> [n \in JobNames |-> NoEnvFile]]

\* A merge in which the earlier environment wins.
MergeKeepFirst(e1, e2) ==
  [k \in DOMAIN e1 \cup DOMAIN e2 |->
     IF k \in DOMAIN e1 THEN e1[k] ELSE e2[k]]

\* Merge: the later environment overrides the earlier one key by key.
Merge(e1, e2) ==
  [k \in DOMAIN e1 \cup DOMAIN e2 |->
     IF k \in DOMAIN e2 THEN e2[k] ELSE e1[k]]

RECURSIVE Parse(_, _, _)
\* Parse with substitution: the lines are read in order into env; ${REF}
\* is looked up in the file's own variables so far and then in substEnv; a
\* line without = and a reference that is not found are errors.
Parse(lines, env, substEnv) ==
  IF lines = <<>> THEN [err |-> FALSE, env |-> env]
  ELSE LET l == Head(lines)
       IN IF l.key = None THEN [err |-> TRUE, env |-> EmptyEnv]
          ELSE IF l.ref = None
          THEN Parse(Tail(lines), Merge(env, l.key :> l.value), substEnv)
          ELSE IF l.ref \in DOMAIN env
          THEN Parse(Tail(lines), Merge(env, l.key :> env[l.ref]), substEnv)
          ELSE IF l.ref \in DOMAIN substEnv
          THEN Parse(Tail(lines), Merge(env, l.key :> substEnv[l.ref]),
                     substEnv)
          ELSE [err |-> TRUE, env |-> EmptyEnv]

\* Load: no variables and no error for a file that cannot be opened,
\* "parse" for one that does not parse, and the variables of the file
\* otherwise.
Load(file, substEnv) ==
  IF file.state = "missing" THEN [err |-> "", env |-> EmptyEnv]
  ELSE LET p == Parse(file.lines, EmptyEnv, substEnv)
       IN [err |-> IF p.err THEN "parse" ELSE "", env |-> p.env]

\* One round of the loop of update over the env files: a loaded file is
\* merged over what there is, an error that says the file does not exist
\* is passed over, any other error ends update.
AddLayer(acc, file) ==
  IF acc.err THEN acc
  ELSE LET r == Load(file, acc.env)
       IN IF r.err = "" THEN [err |-> FALSE, env |-> Merge(acc.env, r.env)]
          ELSE IF r.err = "notexist" THEN acc
          ELSE [err |-> TRUE, env |-> acc.env]

\* update up to the call of loadJob: the environment of the process, then
\* global.env, then job.env, and then the job directory.
buildEnv(name, efs) ==
  LET layered == AddLayer(AddLayer([err |-> FALSE, env |-> ProcessEnv],
                                   efs.global),
                          efs.job[name])
  IN [err |-> layered.err,
      env |-> Merge(layered.env, JobDirEnvVar :> JobDirOf[name])]

\* The mapping loadJob puts in the JobConfig: the one bound to the name env
\* when the module has run.  That is the mapping the module was given, with
\* the entries the module assigned, unless the module bound a mapping of
\* its own to the name.
finalEnv(env, content) ==
  IF "env" \in DOMAIN content THEN content.env
  ELSE IF "setenv" \in DOMAIN content
  THEN [k \in DOMAIN env \cup DOMAIN content.setenv |->
          IF k \in DOMAIN content.setenv THEN content.setenv[k] ELSE env[k]]
  ELSE env

\* loadJob: the JobConfig made from a config.star; ver tells which content
\* of the file it was made from.  A global named enabled that the module
\* binds does not reach the JobConfig: loadJob takes the value from the
\* predeclared names, where it is True.
loadJob(env, name, file) ==
  [name |-> name, ver |-> file.ver, env |-> finalEnv(env, file.content),
   queue |-> file.content.queue, duplicate |-> file.content.duplicate,
   enable |-> file.content.enable, jitter |-> file.content.jitter,
   log |-> file.content.log, notify |-> file.content.notify,
   command |-> file.content.command,
   should_run |-> file.content.should_run]

\* Whether loadJob succeeds on the file: it is there and it evaluates.
Loadable(file) == file # NoFile /\ file.content # Broken

\* Whether update succeeds for the job: the env files load and so does the
\* config.star.
Updatable(name, fs, efs) == ~buildEnv(name, efs).err /\ Loadable(fs[name])

\* loadAll on an empty map: every job whose update succeeds is put in the
\* map.
loadAll(fs, efs) ==
  [n \in JobNames |-> IF Updatable(n, fs, efs)
                       THEN loadJob(buildEnv(n, efs).env, n, fs[n])
                       ELSE NoJob]

\* A remove that empties the map.
removeClearing(store, name) ==
  [err |-> IF store[name] = NoJob THEN "notfound" ELSE "",
   store |-> [n \in DOMAIN store |-> NoJob]]

\* remove: what it returns ("" for nil) and the map it leaves.
remove(store, name) ==
  IF store[name] = NoJob
  THEN [err |-> "notfound", store |-> store]
  ELSE [err |-> "", store |-> [store EXCEPT ![name] = NoJob]]

\* What the operator writes into a config.star while the program runs.
WriteContents == {KShared, KMinute, Broken}

\* The operator saves the config.star of a job; the watcher gets an event.
WriteConfig(n, c) ==
  /\ writes < MaxWrites
  /\ Len(events) < EventCap
  /\ files[n] # NoFile
  /\ files[n].content # c
  /\ writes' = writes + 1
  /\ files' = [files EXCEPT ![n] = [content |-> c, ver |-> writes + 1]]
  /\ events' = Append(events, [kind |-> "config", name |-> n])
  /\ UNCHANGED <<clock, envFiles, watchVars, schedVars, runVars>>

\* The operator deletes the config.star of a job.
RemoveConfig(n) ==
  /\ writes < MaxWrites
  /\ Len(events) < EventCap
  /\ files[n] # NoFile
  /\ writes' = writes + 1
  /\ files' = [files EXCEPT ![n] = NoFile]
  /\ events' = Append(events, [kind |-> "config", name |-> n])
  /\ UNCHANGED <<clock, envFiles, watchVars, schedVars, runVars>>

\* The operator saves global.env with the content it has; the watcher gets
\* an event.
WriteGlobalEnv ==
  /\ writes < MaxWrites
  /\ Len(events) < EventCap
  /\ writes' = writes + 1
  /\ events' = Append(events, [kind |-> "global", name |-> None])
  /\ UNCHANGED <<clock, files, envFiles, watchVars, schedVars, runVars>>

\* watchChanges gets an event for global.env: the debouncer is handed the
\* callback that clears the store and loads every job again.
WatchGlobalEnv ==
  /\ events # <<>>
  /\ Head(events).kind = "global"
  /\ events' = Tail(events)
  /\ pending' = [kind |-> "all", name |-> None]
  /\ UNCHANGED <<clock, files, envFiles, writes, byName, watchRef, failed, handlers, schedVars,
                 runVars>>

\* watchChanges gets an event for a config.star that exists: the debouncer
\* is handed handleUpdate, which replaces the callback it held.
WatchConfigWritten ==
  /\ events # <<>>
  /\ Head(events).kind = "config"
  /\ files[Head(events).name] # NoFile
  /\ events' = Tail(events)
  /\ pending' = [kind |-> "update", name |-> Head(events).name]
  /\ UNCHANGED <<clock, files, envFiles, writes, byName, watchRef, failed, handlers, schedVars,
                 runVars>>

\* watchChanges gets an event for a config.star that is gone: it removes
\* the job at once (remove takes the write lock of the store).
WatchConfigGone ==
  /\ events # <<>>
  /\ Head(events).kind = "config"
  /\ files[Head(events).name] = NoFile
  /\ ~SchedHoldsRLock
  /\ events' = Tail(events)
  /\ byName' = [byName EXCEPT ![watchRef] =
                                 remove(@, Head(events).name).store]
  /\ UNCHANGED <<clock, files, envFiles, writes, watchRef, pending, handlers, failed,
                 schedVars, runVars>>

\* Paths are sequences of components.  filepath.Dir drops the last one and
\* filepath.Base is the last one.
Dir(path) == SubSeq(path, 1, Len(path) - 1)

Base(path) == path[Len(path)]

\* The configuration root the program watches.
ConfigRoot == <<"home", "regular">>

jobConfigFileName == "config.star"

\* jobNameFromPath: the name of the directory the path lies in.
jobNameFromPath(path) == Base(Dir(path))

\* The path of a job's directory in the configuration root.
JobDirPath(n) == Append(ConfigRoot, n)

\* os.Stat on the path of a config.star succeeds: it is the config.star of
\* a job directory in the configuration root and the file is there.
StatConfig(path, fs) ==
  /\ Len(path) = Len(ConfigRoot) + 2
  /\ Dir(Dir(path)) = ConfigRoot
  /\ Base(path) = jobConfigFileName
  /\ Base(Dir(path)) \in JobNames
  /\ fs[Base(Dir(path))] # NoFile

\* What the directories moved into the configuration root hold.
DirContents == {KShared, KMinute}

\* The operator moves a directory with a config.star into the configuration
\* root under the name of a job that has no directory: the watcher gets one
\* create event, for the directory itself.
CreateJobDir(n, c) ==
  /\ writes < MaxWrites
  /\ Len(events) < EventCap
  /\ files[n] = NoFile
  /\ writes' = writes + 1
  /\ files' = [files EXCEPT ![n] = [content |-> c, ver |-> writes + 1]]
  /\ events' = Append(events, [kind |-> "dir", name |-> n])
  /\ UNCHANGED <<clock, envFiles, watchVars, schedVars, runVars>>

\* watchChanges gets the create event of a directory.  The job name and the
\* path of the config.star are taken from the path of the event, as for
\* every event: the name is that of the directory the created directory lies
\* in.  The debouncer is handed handleUpdate for that name if the config.star
\* at that path is there; otherwise the event is dropped.
WatchDirCreated ==
  /\ events # <<>>
  /\ Head(events).kind = "dir"
  /\ events' = Tail(events)
  /\ LET eventPath == JobDirPath(Head(events).name)
         jobName == jobNameFromPath(eventPath)
         jobConfigPath == ConfigRoot \o <<jobName, jobConfigFileName>>
     IN pending' = IF StatConfig(jobConfigPath, files)
                   THEN [kind |-> "update", name |-> jobName]
                   ELSE pending
  /\ UNCHANGED <<clock, files, envFiles, writes, byName, watchRef, failed, handlers, schedVars,
                 runVars>>

FreeHandler == CHOOSE h \in Handlers :
                 /\ handlers[h].pc = "idle"
                 /\ \A g \in Handlers : handlers[g].pc = "idle" => h <= g

\* The debouncer's timer fires: the callback runs in a goroutine of its own.
\* handleUpdate calls update at once, which copies the watcher's
\* jobScheduler value and with it the reference to the map.
DebounceFire ==
  /\ pending # NoCallback
  /\ \E h \in Handlers : handlers[h].pc = "idle"
  /\ handlers' = [handlers EXCEPT ![FreeHandler] =
                    IF pending.kind = "update"
                    THEN [IdleHandler EXCEPT !.pc = "load", !.kind = "update",
                                             !.ref = watchRef,
                                             !.name = pending.name]
                    ELSE [IdleHandler EXCEPT !.pc = "removeAll",
                                             !.kind = "all"]]
  /\ pending' = NoCallback
  /\ UNCHANGED <<clock, fsVars, byName, watchRef, failed, schedVars, runVars>>

\* The order in which filepath.Walk visits the job directories.
WalkOrder == <<"a", "b">>

\* The reload after global.env changed calls removeAll.  removeAll has a
\* pointer receiver: under the write lock it makes a fresh map and puts it
\* in the jobScheduler value of watchChanges.  The maps made before stay as
\* they are.  loadAll is then called on that value and copies it.
HandlerRemoveAll(h) ==
  /\ handlers[h].pc = "removeAll"
  /\ ~SchedHoldsRLock
  /\ byName' = byName @@ ((watchRef + 1) :> [n \in JobNames |-> NoJob])
  /\ watchRef' = watchRef + 1
  /\ handlers' = [handlers EXCEPT ![h].pc = "walk", ![h].ref = watchRef + 1,
                                  ![h].rest = WalkOrder]
  /\ UNCHANGED <<clock, fsVars, pending, failed, schedVars, runVars>>

\* loadAll walks the configuration tree: the goroutine ends after the last
\* directory; a directory without config.star is passed over; for a
\* config.star update is called.
HandlerWalk(h) ==
  /\ handlers[h].pc = "walk"
  /\ handlers' =
       IF handlers[h].rest = <<>>
       THEN [handlers EXCEPT ![h] = IdleHandler]
       ELSE IF files[Head(handlers[h].rest)] = NoFile
       THEN [handlers EXCEPT ![h].rest = Tail(@)]
       ELSE [handlers EXCEPT ![h].pc = "load",
                             ![h].name = Head(handlers[h].rest),
                             ![h].rest = Tail(@)]
  /\ UNCHANGED <<clock, fsVars, byName, watchRef, failed, pending, schedVars, runVars>>

\* update reads the env files and the config.star and evaluates it, holding
\* no lock.  When that fails, handleUpdate goes on to remove the job, and
\* loadAll logs the error and walks on.
HandlerLoad(h) ==
  /\ handlers[h].pc = "load"
  /\ handlers' = IF Updatable(handlers[h].name, files, envFiles)
                 THEN [handlers EXCEPT ![h].pc = "store",
                         ![h].loaded =
                           loadJob(buildEnv(handlers[h].name, envFiles).env,
                                   handlers[h].name,
                                   files[handlers[h].name])]
                 ELSE IF handlers[h].kind = "all"
                 THEN [handlers EXCEPT ![h].pc = "walk"]
                 ELSE [handlers EXCEPT ![h].pc = "remove"]
  /\ UNCHANGED <<clock, fsVars, byName, watchRef, failed, pending, schedVars, runVars>>

\* update puts the loaded job in its map under the write lock.
HandlerStore(h) ==
  /\ handlers[h].pc = "store"
  /\ ~SchedHoldsRLock
  /\ byName' = [byName EXCEPT ![handlers[h].ref][handlers[h].name] =
                                 handlers[h].loaded]
  /\ handlers' = IF handlers[h].kind = "all"
                 THEN [handlers EXCEPT ![h].pc = "walk", ![h].name = None,
                                       ![h].loaded = NoJob]
                 ELSE [handlers EXCEPT ![h] = IdleHandler]
  /\ failed' = failed \ {handlers[h].name}
  /\ UNCHANGED <<clock, fsVars, watchRef, pending, schedVars, runVars>>

\* update reports every job it stores as new.
updateResultAdded(store, name) == "added"

\* update: what it returns after it has stored the job.
updateResult(store, name) ==
  IF store[name] # NoJob THEN "updated" ELSE "added"

\* update, called by handleUpdate, puts the loaded job in its map under the
\* write lock and returns whether the name was there; handleUpdate is left
\* before it logs the result.
HandlerStoreResult(h) ==
  /\ handlers[h].pc = "store"
  /\ handlers[h].kind = "update"
  /\ ~SchedHoldsRLock
  /\ byName' = [byName EXCEPT ![handlers[h].ref][handlers[h].name] =
                                 handlers[h].loaded]
  /\ handlers' = [handlers EXCEPT ![h].pc = "log",
                     ![h].res = updateResult(byName[handlers[h].ref],
                                             handlers[h].name)]
  /\ failed' = failed \ {handlers[h].name}
  /\ UNCHANGED <<clock, fsVars, watchRef, pending, schedVars, runVars>>

\* handleUpdate logs "Added job" or "Updated job", and the goroutine ends.
HandlerLog(h) ==
  /\ handlers[h].pc = "log"
  /\ handlers' = [handlers EXCEPT ![h] = IdleHandler]
  /\ UNCHANGED <<clock, fsVars, byName, watchRef, failed, pending, schedVars,
                 runVars>>

\* handleUpdate after a failed update: the job is removed from the map.
HandlerRemove(h) ==
  /\ handlers[h].pc = "remove"
  /\ ~SchedHoldsRLock
  /\ byName' = [byName EXCEPT ![watchRef] =
                                 remove(@, handlers[h].name).store]
  /\ handlers' = [handlers EXCEPT ![h] = IdleHandler]
  /\ failed' = failed \cup {handlers[h].name}
  /\ UNCHANGED <<clock, fsVars, watchRef, pending, schedVars, runVars>>

\* ------------------------------------------------------------------------
\* The system
\* ------------------------------------------------------------------------

InitFile(c) == [content |-> c, ver |-> 0]

\* The state when runService has loaded the jobs and started the scheduler
\* loop, the watcher and the runner.
InitWithState(fs, efs, sd) ==
  /\ now = 0
  /\ advances = 0
  /\ files = fs
  /\ envFiles = efs
  /\ writes = 0
  /\ byName = [r \in {SchedRef} |-> loadAll(fs, efs)]
  /\ watchRef = SchedRef
  /\ events = <<>>
  /\ pending = NoCallback
  /\ handlers = [h \in Handlers |-> IdleHandler]
  /\ failed = {}
  /\ sched = IdleSched
  /\ evals = {}
  /\ queues = << >>
  /\ mu = Nobody
  /\ workers = [w \in Workers |-> IdleWorker]
  /\ db = [jobs |-> <<>>, logs |-> <<>>]
  /\ nextEid = 0
  /\ done = [q \in QueueNames |-> [eid |-> 0, finished |-> 0, attempted |-> 0]]
  /\ notified = [n \in JobNames |-> 0]
  /\ stateDir = sd

\* The same when no job has a log file in its state directory.
InitWithEnv(fs, efs) == InitWithState(fs, efs, NoStateDir)

\* The same with no env file under the configuration root.
InitWith(fs) == InitWithEnv(fs, NoEnvFiles)

Init ==
  \E ca \in {KAlways, KDup, KDisabled}, cb \in {KShared} :
    InitWith([n \in JobNames |-> IF n = "a" THEN InitFile(ca)
                                             ELSE InitFile(cb)])

Next ==
  \/ AdvanceClock
  \/ SchedStart
  \/ SchedTick
  \/ SchedLock
  \/ \E n \in JobNames : SchedSkipDisabled(n)
  \/ \E n \in JobNames : SchedRead(n)
  \/ SchedCallTrue
  \/ SchedUnlock
  \/ \E q \in QueueNames : RunQueueHeadNone(q)
  \/ \E q \in QueueNames : RunQueueHeadActivate(q)
  \/ \E w \in Workers : StartJob(w)
  \/ \E w \in Workers : StartJobLogError(w)
  \/ \E w \in Workers, o \in Outcomes : FinishJob(w, o)
  \/ \E w \in Workers : ReleaseQueue(w)
  \/ \E w \in Workers : SaveCompletedJob(w)
  \/ \E w \in Workers : SaveCompletedJobError(w)

Spec == Init /\ [][Next]_vars

\* The scheduler loop on its own, with the clock jumping: nothing is taken
\* from the queues, the configuration does not change.
InitSched ==
  \E ca \in {KMinute, KAlways}, cb \in {KDisabled, KBad, KRaise} :
    InitWith([n \in JobNames |-> IF n = "a" THEN InitFile(ca)
                                             ELSE InitFile(cb)])

NextSched ==
  \/ \E d \in Gaps : AdvanceClockBy(d)
  \/ SchedStart
  \/ SchedTick
  \/ SchedLock
  \/ \E n \in JobNames : SchedSkipDisabled(n)
  \/ \E n \in JobNames : SchedRead(n)
  \/ SchedCallTrue
  \/ SchedCallFalse
  \/ SchedCallError
  \/ SchedUnlock

SpecSched == InitSched /\ [][NextSched]_vars

\* The scheduler loop with predicates that do not fail and a database that
\* may fail to answer.
InitRecover ==
  \E ca \in {KMinute, KAlways}, cb \in {KShared, KDisabled} :
    InitWith([n \in JobNames |-> IF n = "a" THEN InitFile(ca)
                                             ELSE InitFile(cb)])

\* A step of the goroutine that runs schedule.
SchedStep ==
  \/ SchedStart
  \/ SchedTick
  \/ SchedLock
  \/ \E n \in JobNames : SchedSkipDisabled(n)
  \/ \E n \in JobNames : SchedRead(n)
  \/ \E n \in JobNames : SchedReadError(n)
  \/ SchedCallTrue
  \/ SchedCallFalse
  \/ SchedUnlock

NextRecover ==
  \/ \E d \in Gaps : AdvanceClockBy(d)
  \/ SchedStep

SpecRecover == InitRecover /\ [][NextRecover]_vars

\* The configuration tree, the watcher and the job store on their own.
InitWatch ==
  InitWith([n \in JobNames |-> IF n = "a" THEN InitFile(KAlways)
                                           ELSE InitFile(KShared)])

NextWatch ==
  \/ \E n \in JobNames, c \in WriteContents : WriteConfig(n, c)
  \/ \E n \in JobNames : RemoveConfig(n)
  \/ WriteGlobalEnv
  \/ WatchGlobalEnv
  \/ WatchConfigWritten
  \/ WatchConfigGone
  \/ DebounceFire
  \/ \E h \in Handlers : HandlerRemoveAll(h)
  \/ \E h \in Handlers : HandlerWalk(h)
  \/ \E h \in Handlers : HandlerLoad(h)
  \/ \E h \in Handlers : HandlerStore(h)
  \/ \E h \in Handlers : HandlerRemove(h)

SpecWatch == InitWatch /\ [][NextWatch]_vars

\* The watcher and the job store with what update returns; job a may have
\* a job.env that does not parse.
InitUpdate ==
  \E ja \in {NoEnvFile, EnvFile(<<RefLine("X", "UNSET")>>)} :
    InitWithEnv([n \in JobNames |-> IF n = "a" THEN InitFile(KAlways)
                                                  ELSE InitFile(KShared)],
                [global |-> NoEnvFile,
                 job |-> [n \in JobNames |-> IF n = "a" THEN ja
                                                        ELSE NoEnvFile]])

NextUpdate ==
  \/ \E n \in JobNames, c \in WriteContents : WriteConfig(n, c)
  \/ \E n \in JobNames : RemoveConfig(n)
  \/ WatchConfigWritten
  \/ WatchConfigGone
  \/ DebounceFire
  \/ \E h \in Handlers : HandlerLoad(h)
  \/ \E h \in Handlers : HandlerStoreResult(h)
  \/ \E h \in Handlers : HandlerLog(h)
  \/ \E h \in Handlers : HandlerRemove(h)

SpecUpdate == InitUpdate /\ [][NextUpdate]_vars

\* The watcher and the job store when job b has no directory at the start
\* and directories are moved into the configuration root.
InitCreate ==
  InitWith([n \in JobNames |-> IF n = "a" THEN InitFile(KAlways)
                                           ELSE NoFile])

NextCreate ==
  \/ \E n \in JobNames, c \in DirContents : CreateJobDir(n, c)
  \/ \E n \in JobNames, c \in WriteContents : WriteConfig(n, c)
  \/ \E n \in JobNames : RemoveConfig(n)
  \/ WatchDirCreated
  \/ WatchConfigWritten
  \/ WatchConfigGone
  \/ DebounceFire
  \/ \E h \in Handlers : HandlerLoad(h)
  \/ \E h \in Handlers : HandlerStoreResult(h)
  \/ \E h \in Handlers : HandlerLog(h)
  \/ \E h \in Handlers : HandlerRemove(h)

SpecCreate == InitCreate /\ [][NextCreate]_vars

\* What the operator writes into a config.star when the module deals with
\* env.
EnvContents == {KAlways, KNewEnv, KSetEnv}

\* The watcher and the job store with config.star files that assign to env
\* or bind it anew, and a job.env for job a that may set a variable.
InitJobDir ==
  \E ca \in EnvContents,
     ja \in {NoEnvFile, EnvFile(<<Line("MODE", "job")>>)} :
    InitWithEnv([n \in JobNames |-> IF n = "a" THEN InitFile(ca)
                                                  ELSE InitFile(KShared)],
                [global |-> NoEnvFile,
                 job |-> [n \in JobNames |-> IF n = "a" THEN ja
                                                        ELSE NoEnvFile]])

NextJobDir ==
  \/ \E n \in JobNames, c \in EnvContents : WriteConfig(n, c)
  \/ WatchConfigWritten
  \/ DebounceFire
  \/ \E h \in Handlers : HandlerLoad(h)
  \/ \E h \in Handlers : HandlerStore(h)

SpecJobDir == InitJobDir /\ [][NextJobDir]_vars

\* The reload after a change of global.env next to the scheduler loop: the
\* config.star files stay as they are and load.
NextGlobal ==
  \/ WriteGlobalEnv
  \/ WatchGlobalEnv
  \/ DebounceFire
  \/ \E h \in Handlers : HandlerRemoveAll(h)
  \/ \E h \in Handlers : HandlerWalk(h)
  \/ \E h \in Handlers : HandlerLoad(h)
  \/ \E h \in Handlers : HandlerStore(h)
  \/ AdvanceClock
  \/ SchedStart
  \/ SchedTick
  \/ SchedLock
  \/ \E n \in JobNames : SchedRead(n)
  \/ SchedCallTrue
  \/ SchedUnlock

SpecGlobal == InitWatch /\ [][NextGlobal]_vars

\* The watcher and the job store together with the scheduler loop, minute by
\* minute: nothing is taken from the queues.
InitReload ==
  \E ca \in {KAlways, KDisabled, KEnabledFalse} :
    InitWith([n \in JobNames |-> IF n = "a" THEN InitFile(ca)
                                             ELSE InitFile(KShared)])

NextReload ==
  \/ NextWatch
  \/ AdvanceClock
  \/ SchedStart
  \/ SchedTick
  \/ SchedLock
  \/ \E n \in JobNames : SchedSkipDisabled(n)
  \/ \E n \in JobNames : SchedRead(n)
  \/ SchedCallTrue
  \/ SchedCallFalse
  \/ SchedUnlock

SpecReload == InitReload /\ [][NextReload]_vars

\* One job whose config.star is changed or deleted while the scheduler
\* enqueues it and the runner executes it.
InitSnapshot ==
  InitWith([n \in JobNames |-> IF n = "a" THEN InitFile(KDup) ELSE NoFile])

NextSnapshot ==
  \/ AdvanceClock
  \/ \E n \in JobNames, c \in WriteContents : WriteConfig(n, c)
  \/ \E n \in JobNames : RemoveConfig(n)
  \/ WatchConfigWritten
  \/ WatchConfigGone
  \/ DebounceFire
  \/ \E h \in Handlers : HandlerLoad(h)
  \/ \E h \in Handlers : HandlerStore(h)
  \/ \E h \in Handlers : HandlerRemove(h)
  \/ SchedStart
  \/ SchedTick
  \/ SchedLock
  \/ \E n \in JobNames : SchedRead(n)
  \/ SchedCallTrue
  \/ SchedCallFalse
  \/ SchedUnlock
  \/ \E q \in QueueNames : RunQueueHeadNone(q)
  \/ \E q \in QueueNames : RunQueueHeadActivate(q)
  \/ \E w \in Workers : StartJob(w)
  \/ \E w \in Workers : StartJobLogError(w)
  \/ \E w \in Workers, o \in Outcomes : FinishJob(w, o)
  \/ \E w \in Workers : ReleaseQueue(w)
  \/ \E w \in Workers : SaveCompletedJob(w)
  \/ \E w \in Workers : SaveCompletedJobError(w)

SpecSnapshot == InitSnapshot /\ [][NextSnapshot]_vars

\* The scheduler loop, the watcher with its debounced callbacks and the
\* workers of the runner side by side, at one instant: who holds and who
\* waits for the lock of the job store and the mutex of the runner.
NextLocks ==
  \/ \E c \in {KMinute, Broken} : WriteConfig("a", c)
  \/ RemoveConfig("a")
  \/ WatchConfigWritten
  \/ WatchConfigGone
  \/ DebounceFire
  \/ \E h \in Handlers : HandlerLoad(h)
  \/ \E h \in Handlers : HandlerStore(h)
  \/ \E h \in Handlers : HandlerRemove(h)
  \/ SchedStart
  \/ SchedLock
  \/ \E n \in JobNames : SchedRead(n)
  \/ SchedCallTrue
  \/ SchedUnlock
  \/ \E q \in QueueNames : RunQueueHeadActivate(q)
  \/ \E w \in Workers : StartJob(w)
  \/ \E w \in Workers : FinishJob(w, "ok")
  \/ \E w \in Workers : ReleaseQueue(w)
  \/ \E w \in Workers : SaveCompletedJob(w)

SpecLocks == InitWatch /\ [][NextLocks]_vars

\* The scheduler and the runner with two jobs that log and share a queue,
\* the commands writing to their log files: what comes to be in the
\* database.
InitDB ==
  \E cb \in {KShared, KDisabled} :
    InitWith([n \in JobNames |-> IF n = "a" THEN InitFile(KShared)
                                               ELSE InitFile(cb)])

NextDB ==
  \/ AdvanceClock
  \/ SchedStart
  \/ SchedTick
  \/ SchedLock
  \/ \E n \in JobNames : SchedSkipDisabled(n)
  \/ \E n \in JobNames : SchedRead(n)
  \/ SchedCallTrue
  \/ SchedUnlock
  \/ \E q \in QueueNames : RunQueueHeadActivate(q)
  \/ \E w \in Workers : StartJob(w)
  \/ \E w \in Workers, o \in Outcomes, fs \in Outputs :
       FinishJobLogged(w, o, fs)
  \/ \E w \in Workers : ReleaseQueue(w)
  \/ \E w \in Workers : SaveCompletedJob(w)
  \/ \E w \in Workers : SaveCompletedJobError(w)

SpecDB == InitDB /\ [][NextDB]_vars

\* The first pass of the scheduler and the runner with the state
\* directories: job a discards its output, job b logs, and the state
\* directories may hold the log files of an earlier run of the service.
InitLogs ==
  \E sd \in {NoStateDir,
              [n \in JobNames |-> [files |-> StaleFiles, by |-> 0]]} :
    InitWithState([n \in JobNames |-> IF n = "a" THEN InitFile(KDup)
                                                  ELSE InitFile(KShared)],
                  NoEnvFiles, sd)

NextLogs ==
  \/ SchedStart
  \/ SchedLock
  \/ \E n \in JobNames : SchedRead(n)
  \/ SchedCallTrue
  \/ SchedUnlock
  \/ \E q \in QueueNames : RunQueueHeadActivate(q)
  \/ \E w \in Workers : StartJobOpenLogs(w)
  \/ \E w \in Workers, o \in Outcomes, fs \in Outputs \cup {NoFiles} :
       FinishJobWriteLogs(w, o, fs)
  \/ \E w \in Workers : ReleaseQueue(w)
  \/ \E w \in Workers : SaveCompletedJobReadLogs(w)

SpecLogs == InitLogs /\ [][NextLogs]_vars

\* A job with a queue of its own whose config.star is changed to name the
\* shared queue while the scheduler enqueues the job and the runner
\* executes it.
InitRequeue ==
  InitWith([n \in JobNames |-> IF n = "a" THEN InitFile(KAlways)
                                           ELSE InitFile(KDisabled)])

NextRequeue ==
  \/ AdvanceClock
  \/ WriteConfig("a", KShared)
  \/ WatchConfigWritten
  \/ DebounceFire
  \/ \E h \in Handlers : HandlerLoad(h)
  \/ \E h \in Handlers : HandlerStore(h)
  \/ SchedStart
  \/ SchedTick
  \/ SchedLock
  \/ \E n \in JobNames : SchedSkipDisabled(n)
  \/ \E n \in JobNames : SchedRead(n)
  \/ SchedCallTrue
  \/ SchedUnlock
  \/ \E q \in QueueNames : RunQueueHeadActivate(q)
  \/ \E w \in Workers : StartJobOpenLogs(w)
  \/ \E w \in Workers, fs \in Outputs : FinishJobWriteLogs(w, "ok", fs)
  \/ \E w \in Workers : ReleaseQueue(w)
  \/ \E w \in Workers : SaveCompletedJobReadLogs(w)

SpecRequeue == InitRequeue /\ [][NextRequeue]_vars

\* The first pass of the scheduler and the runner, with jobs of every
\* notify mode and commands that succeed, fail or cannot be started.
InitNotify ==
  \E ca \in {KAlways, KDup} :
    InitWith([n \in JobNames |-> IF n = "a" THEN InitFile(ca)
                                               ELSE InitFile(KShared)])

NextNotify ==
  \/ SchedStart
  \/ SchedLock
  \/ \E n \in JobNames : SchedRead(n)
  \/ SchedCallTrue
  \/ SchedUnlock
  \/ \E q \in QueueNames : RunQueueHeadActivate(q)
  \/ \E w \in Workers : StartJob(w)
  \/ \E w \in Workers, o \in AllOutcomes : FinishJob(w, o)
  \/ \E w \in Workers : ReleaseQueue(w)
  \/ \E w \in Workers : SaveCompletedJob(w)
  \/ \E w \in Workers : SaveCompletedJobError(w)

SpecNotify == InitNotify /\ [][NextNotify]_vars

\* The scheduler loop and the runner, with log files that may fail to open,
\* under fair scheduling of the runner: a queue that can be activated time
\* and again is activated, a worker that holds a head goes on, every
\* command returns, and a worker that waits for the mutex gets it.
NextProgress ==
  \/ NextNotify
  \/ \E w \in Workers : StartJobLogError(w)

FairRunner ==
  /\ \A q \in QueueNames : SF_vars(RunQueueHeadActivate(q))
  /\ \A w \in Workers : WF_vars(StartJob(w) \/ StartJobLogError(w))
  /\ \A w \in Workers : WF_vars(\E o \in AllOutcomes : FinishJob(w, o))
  /\ \A w \in Workers : SF_vars(ReleaseQueue(w))
  /\ \A w \in Workers :
       WF_vars(SaveCompletedJob(w) \/ SaveCompletedJobError(w))

SpecProgress == InitNotify /\ [][NextProgress]_vars /\ FairRunner

\* The scheduler and the runner over two minutes, the jobs sharing a queue,
\* with commands that succeed, fail or cannot be started, and saves that
\* fail.
InitRecord ==
  \E cb \in {KShared, KDisabled} :
    InitWith([n \in JobNames |-> IF n = "a" THEN InitFile(KDup)
                                               ELSE InitFile(cb)])

NextRecord ==
  \/ NextNotify
  \/ AdvanceClock
  \/ SchedTick
  \/ \E n \in JobNames : SchedSkipDisabled(n)

SpecRecord == InitRecord /\ [][NextRecord]_vars

\* The scheduler loop and the runner with a job that is due when its last
\* completion is a day old.
InitStale ==
  InitWith([n \in JobNames |-> IF n = "a" THEN InitFile(KStale)
                                           ELSE InitFile(KDisabled)])

NextStale ==
  \/ NextRecord
  \/ SchedCallFalse

SpecStale == InitStale /\ [][NextStale]_vars

\* The scheduler loop with the runner of src/jobrunner.go.
NextReadLock ==
  \/ AdvanceClock
  \/ SchedStart
  \/ SchedTick
  \/ SchedLock
  \/ \E n \in JobNames : SchedSkipDisabled(n)
  \/ \E n \in JobNames : SchedRead(n)
  \/ SchedCallTrue
  \/ SchedUnlock
  \/ \E q \in QueueNames : RunQueueHeadCopy(q)
  \/ \E w \in Workers : RunQueueHeadWriteBack(w)
  \/ \E w \in Workers : RunQueueHeadLower(w)

SpecReadLock == InitRecord /\ [][NextReadLock]_vars

\* The first pass of the scheduler and the runner, with what runQueueHead
\* returns: commands, saves and notifiers that fail or do not.
NextReport ==
  \/ SchedStart
  \/ SchedLock
  \/ \E n \in JobNames : SchedRead(n)
  \/ SchedCallTrue
  \/ SchedUnlock
  \/ \E q \in QueueNames : RunQueueHeadActivate(q)
  \/ \E w \in Workers : StartJob(w)
  \/ \E w \in Workers, o \in AllOutcomes : FinishJob(w, o)
  \/ \E w \in Workers : ReleaseQueue(w)
  \/ \E w \in Workers, saveErr \in BOOLEAN, notifyErr \in BOOLEAN :
       SaveAndNotify(w, saveErr, notifyErr)
  \/ \E w \in Workers : PickError(w)
  \/ \E w \in Workers : LogReturned(w)

SpecReport == InitNotify /\ [][NextReport]_vars

\* What global.env and a job.env may hold when the service starts.
GlobalEnvFiles ==
  {NoEnvFile,
   EnvFile(<<Line("MODE", "global"), Line("G", "1")>>),
   EnvFile(<<Line(JobDirEnvVar, "/g")>>),
   EnvFile(<<BadLine>>)}

JobEnvFiles ==
  {NoEnvFile,
   EnvFile(<<Line("MODE", "job")>>),
   EnvFile(<<RefLine("X", "MODE"), Line(JobDirEnvVar, "/j")>>),
   EnvFile(<<RefLine("X", "UNSET")>>)}

\* The watcher and the job store, started with env files of every kind.
InitEnv ==
  \E g \in GlobalEnvFiles, ja \in JobEnvFiles, jb \in JobEnvFiles :
    InitWithEnv([n \in JobNames |-> IF n = "a" THEN InitFile(KAlways)
                                                  ELSE InitFile(KShared)],
                [global |-> g,
                 job |-> [n \in JobNames |-> IF n = "a" THEN ja ELSE jb]])

SpecEnv == InitEnv /\ [][NextWatch]_vars

\* ------------------------------------------------------------------------
\* Properties of the queue runner
\* ------------------------------------------------------------------------

\* A worker between activateQueueHead raising the flag and the end of
\* runQueueHead's last critical section.
Busy(w) == workers[w].pc \in {"active", "run", "fin", "locked"}

BusyIn(q) == {w \in Workers : Busy(w) /\ workers[w].q = q}

\* C1. Per-queue mutual exclusion: in every reachable state, each queue has
\* at most one worker between activating a head and committing its
\* completion, however often runQueueHead is dispatched for the queue.
C1_MutualExclusion ==
  \A q \in QueueNames : Cardinality(BusyIn(q)) <= 1

\* A head is executing while another entry waits behind it in the queue, so
\* that a second dispatch for the queue would have an entry to take.
C1_Witness ==
  \E q \in DOMAIN queues :
    /\ queues[q].activeJob
    /\ Len(queues[q].jobs) >= 2
    /\ \E w \in Workers : workers[w].pc = "run" /\ workers[w].q = q

\* The entries of a queue are in the order of their addJob calls.
InEnqueueOrder(jobs) ==
  \A i, j \in 1..Len(jobs) : i < j => jobs[i].eid < jobs[j].eid

\* What the worker of a queue holds is the head of the queue, it was put
\* there after everything the queue has executed, and it was started no
\* earlier than the last of those finished.
RunsInOrder(w) ==
  LET q == workers[w].q
  IN  /\ workers[w].pc \in {"active", "run", "fin"} =>
           /\ q \in DOMAIN queues
           /\ Len(queues[q].jobs) > 0
           /\ queues[q].jobs[1] = workers[w].entry
      /\ workers[w].pc \in {"active", "run"} =>
           workers[w].entry.eid > done[q].eid
      /\ workers[w].pc = "run" => workers[w].started >= done[q].finished

\* A step changes the entries of a queue only by appending one entry with
\* a new number, or by removing the head that a worker has executed.
QueueStep(q) ==
  \/ q \notin DOMAIN queues
  \/ queues'[q].jobs = queues[q].jobs
  \/ /\ Len(queues'[q].jobs) = Len(queues[q].jobs) + 1
     /\ SubSeq(queues'[q].jobs, 1, Len(queues[q].jobs)) = queues[q].jobs
     /\ queues'[q].jobs[Len(queues'[q].jobs)].eid = nextEid + 1
  \/ /\ Len(queues[q].jobs) > 0
     /\ queues'[q].jobs = Tail(queues[q].jobs)
     /\ \E w \in Workers : /\ workers[w].pc = "fin"
                           /\ workers[w].q = q
                           /\ workers[w].entry = Head(queues[q].jobs)

\* C2. FIFO within a queue: entries appended to the same queue are executed
\* in the order of their addJob calls, an earlier entry has finished no
\* later than a later one is started, and an enqueue that arrives while the
\* head is running neither reorders nor drops an earlier entry.
C2_Fifo ==
  /\ [](\A q \in DOMAIN queues : InEnqueueOrder(queues[q].jobs))
  /\ [](\A w \in Workers : RunsInOrder(w))
  /\ [][\A q \in QueueNames : QueueStep(q)]_vars

\* The second entry of a queue is running after the first one has finished,
\* and a third enqueue (refused or not) was made meanwhile.
C2_Witness ==
  \E w \in Workers :
    /\ workers[w].pc = "run"
    /\ workers[w].entry.eid = 2
    /\ done[workers[w].q].eid = 1
    /\ workers[w].started >= done[workers[w].q].finished
    /\ Cardinality(evals) >= 3

\* C3 as stated: the active flag of a queue stays raised until the
\* completion record of its head has been written, or has failed to be.
C3_LoweredAfterWrite ==
  \A w \in Workers :
    workers[w].pc = "locked" => queues[workers[w].q].activeJob

\* C3. Within a queue, the next job is never activated before
\* saveCompletedJob has returned for its predecessor, with or without an
\* error: the flag is lowered before the write, but the worker holds the
\* runner's mutex from before it lowers the flag until the write and the
\* notification are over, so that no activation and no enqueue falls in
\* between.
C3_NextAfterSaveAttempt ==
  /\ \A w \in Workers : workers[w].pc = "locked" => mu = w
  /\ \A w \in Workers :
       workers[w].pc \in {"active", "run"} =>
         done[workers[w].q].attempted = done[workers[w].q].eid

\* A job runs whose predecessor in the queue was executed and whose
\* predecessor's record could not be written: no row is in the table.
C3_Witness ==
  \E w \in Workers :
    /\ workers[w].pc = "run"
    /\ done[workers[w].q].eid > 0
    /\ done[workers[w].q].attempted = done[workers[w].q].eid
    /\ db.jobs = <<>>

\* The entries of job n in a queue.
EntriesOf(queue, n) == {i \in 1..Len(queue.jobs) : queue.jobs[i].job.name = n}

\* C4. No duplicates when forbidden: a queue whose entries of job n were all
\* enqueued with duplicate = false holds at most one entry of n, the running
\* head included; a queue used by that single job is never longer than 1.
C4_NoDuplicates ==
  \A q \in DOMAIN queues : \A n \in JobNames :
    (\A i \in EntriesOf(queues[q], n) : ~queues[q].jobs[i].job.duplicate)
      => /\ Cardinality(EntriesOf(queues[q], n)) <= 1
         /\ (q = n => Len(queues[q].jobs) <= 1)

\* The predicate of a job that forbids duplicates has been true twice while
\* the first entry is still running, and the queue holds that one entry.
C4_Witness ==
  \E w \in Workers :
    LET e == workers[w].entry
    IN  /\ workers[w].pc = "run"
        /\ ~e.job.duplicate
        /\ done[workers[w].q].eid = 0
        /\ Cardinality({x \in evals : x[1] = e.job.name}) >= 2
        /\ EntriesOf(queues[workers[w].q], e.job.name) = {1}

\* C5. Queues run in parallel: whatever the other queues are doing, a
\* dispatch of runQueueHead for a queue that is not active and not empty
\* activates its head as soon as the mutex is free.
C5_Parallel ==
  \A q \in DOMAIN queues :
    (~queues[q].activeJob /\ Len(queues[q].jobs) > 0 /\ mu = Nobody)
      => ENABLED RunQueueHeadActivate(q)

\* The heads of two queues are executing at the same time.
C5_Witness ==
  \E v, w \in Workers :
    /\ workers[v].pc = "run"
    /\ workers[w].pc = "run"
    /\ workers[v].q # workers[w].q

\* ------------------------------------------------------------------------
\* Properties of the scheduler loop
\* ------------------------------------------------------------------------

\* The jobs of the scheduler's map that are enabled.
EnabledJobs ==
  {n \in JobNames : byName[SchedRef][n] # NoJob /\ byName[SchedRef][n].enable}

\* Whether some queue holds an entry of job n made by the evaluation for t.
EnqueuedAt(n, t) ==
  \E q \in DOMAIN queues : \E i \in 1..Len(queues[q].jobs) :
    queues[q].jobs[i].job.name = n /\ queues[q].jobs[i].at = t

\* C6 as stated.  Predicate error isolation: the scheduler loop never ends,
\* and whenever it is not inside addDueJobsToQueue every instant it has
\* evaluated one job for has been evaluated for all the enabled jobs, also
\* when one of the predicates failed or returned no Boolean.
C6_ErrorIsolation ==
  /\ sched.pc # "stopped"
  /\ sched.pc \notin {"range", "call"} =>
       \A e \in evals : \A n \in EnabledJobs : EvalCount(n, e[2]) >= 1

\* The scheduler loop has ended on a predicate error, with an enabled job
\* left that was not evaluated for the instant of the error.
C6_Stopped ==
  /\ sched.pc = "stopped"
  /\ \E e \in evals : \E n \in EnabledJobs : EvalCount(n, e[2]) = 0

\* C7. Predicate return contract: an evaluation calls addJob if and only if
\* should_run returned exactly True.  addJob then appends the job at the
\* tail of its queue, unless the job forbids duplicates and the queue holds
\* an entry of its name.  For False, for another value and for a failure
\* the queues are left as they are; the job stays in the job store.
C7_ReturnContract ==
  [][evals' # evals =>
       LET job == sched.job
           q == QueueName(job)
           old == IF q \in DOMAIN queues THEN queues[q].jobs ELSE <<>>
           had == \E i \in 1..Len(old) : old[i].job.name = job.name
       IN  /\ byName' = byName
           /\ byName[SchedRef][job.name] = job
           /\ (ShouldRun(job, sched.t, sched.lc) = "true"
                 /\ (job.duplicate \/ ~had)) =>
                /\ q \in DOMAIN queues'
                /\ Len(queues'[q].jobs) = Len(old) + 1
                /\ SubSeq(queues'[q].jobs, 1, Len(old)) = old
                /\ queues'[q].jobs[Len(old) + 1].job = job
                /\ \A p \in DOMAIN queues : p # q => queues'[p] = queues[p]
           /\ (ShouldRun(job, sched.t, sched.lc) = "true"
                 /\ ~job.duplicate /\ had) => queues' = queues
           /\ ShouldRun(job, sched.t, sched.lc) # "true" => queues' = queues
  ]_vars

\* One job has been enqueued, and the predicate of the other has failed or
\* returned no Boolean: it has no entry and is still in the store.
C7_Witness ==
  /\ \E q \in DOMAIN queues : Len(queues[q].jobs) > 0
  /\ \E e \in evals :
       /\ byName[SchedRef][e[1]] # NoJob
       /\ byName[SchedRef][e[1]].should_run \in {"bad", "raise"}
       /\ \A t \in 0..now : ~EnqueuedAt(e[1], t)

C9_Clamp ==
  /\ [][(sched.pc = "wait" /\ sched'.current # sched.current
           /\ now - sched.current > MaxMissedTime) =>
          /\ sched'.last = now
          /\ sched'.pc = "wait"
          /\ evals' = evals
          /\ queues' = queues]_vars
  /\ [](sched.current - sched.prev > MaxMissedTime =>
          \A e \in evals : ~(sched.prev < e[2] /\ e[2] < sched.current))

\* A tick has come after more than an hour; a job was due at a minute in
\* between and has no entry for it.
C9_Witness ==
  /\ sched.pc = "wait"
  /\ sched.current - sched.prev > MaxMissedTime
  /\ sched.last = sched.current
  /\ \E n \in EnabledJobs : \E t \in (sched.prev + 1)..(sched.current - 1) :
       /\ ShouldRun(byName[SchedRef][n], t, NoRow) = "true"
       /\ EvalCount(n, t) = 0
       /\ ~EnqueuedAt(n, t)

\* ------------------------------------------------------------------------
\* Properties of the job store and the watcher
\* ------------------------------------------------------------------------

\* What the watcher's map holds for job n.
Stored(n) == byName[watchRef][n]

\* C10 as stated.  Hot-reload atomicity: the entry of a job in the store is
\* at all times what one load of its config.star made, and with reloads of
\* the job racing a step never replaces the entry by one loaded from an
\* older content of the file.
C10_NewestLoadWins ==
  /\ [](\A n \in JobNames :
          Stored(n) # NoJob =>
            \E c \in Contents :
              Stored(n) = loadJob(Stored(n).env, n,
                                  [content |-> c, ver |-> Stored(n).ver]))
  /\ [][\A n \in JobNames :
          (Stored(n) # NoJob /\ Stored(n)' # NoJob) =>
             Stored(n)'.ver >= Stored(n).ver]_vars

\* Two reloads of a job have raced: nothing is left to run, the file loads,
\* and the store holds what was loaded from an older content of the file.
C10_StaleEntry ==
  /\ events = <<>>
  /\ pending = NoCallback
  /\ \A h \in Handlers : handlers[h].pc = "idle"
  /\ \E n \in JobNames :
       /\ Loadable(files[n])
       /\ Stored(n) # NoJob
       /\ Stored(n).ver > 0
       /\ Stored(n).ver < files[n].ver

\* Nothing of the watcher is left to run: no event, no pending callback, no
\* handler under way.
WatcherQuiet ==
  /\ events = <<>>
  /\ pending = NoCallback
  /\ \A h \in Handlers : handlers[h].pc = "idle"

\* C11 as stated.  A global.env reload reaches the scheduler: the job map the
\* scheduler loop ranges over on a tick is the map of the watcher, so the
\* configuration it is about to evaluate is the entry the watcher's store
\* holds for that job, also after the store was cleared and reloaded.
C11_ReloadReachesScheduler ==
  sched.pc = "call" => sched.job = Stored(sched.job.name)

\* global.env was written and the reload has finished, a later change of a
\* config.star was loaded too and the watcher is quiet; the scheduler loop
\* is about to evaluate a configuration that the watcher's store does not
\* hold any more.
C11_SchedulerKeepsOldMap ==
  /\ WatcherQuiet
  /\ watchRef # SchedRef
  /\ \A n \in JobNames : Stored(n) = loadAll(files, envFiles)[n]
  /\ sched.pc = "call"
  /\ Stored(sched.job.name) # NoJob
  /\ Stored(sched.job.name).ver > sched.job.ver

\* C12 as stated.  A failed reload removes the job: once handleUpdate has
\* returned from a failed update of a job, and until a load of the job is
\* stored again, the job is absent from the store, the map the scheduler
\* ranges over holds no entry for it, and the scheduler does not evaluate it.
C12_FailedReloadRemoves ==
  \A n \in failed :
    /\ Stored(n) = NoJob
    /\ byName[SchedRef][n] = NoJob
    /\ ~(sched.pc = "call" /\ sched.job.name = n)

\* The update of a job has failed and the watcher has removed the job from
\* its map; the watcher is quiet, the config.star still does not load, and
\* the scheduler loop is about to evaluate the job.
C12_EvaluatedAfterRemoval ==
  /\ WatcherQuiet
  /\ sched.pc = "call"
  /\ sched.job.name \in failed
  /\ ~Loadable(files[sched.job.name])
  /\ Stored(sched.job.name) = NoJob

\* Every entry that is in a queue, waiting or running.
Enqueued == UNION {{queues[q].jobs[i] : i \in 1..Len(queues[q].jobs)} :
                     q \in DOMAIN queues}

\* C13.  Enqueued snapshot: a step that changes the job store changes no
\* queue and no running job; an entry joins a queue with the configuration
\* the scheduler has just evaluated and keeps it for as long as it is in
\* the queue; a worker takes the head as it is in the queue and executes it
\* to the end (command, env, log, notify, jitter) as it took it.
C13_EnqueuedSnapshot ==
  [][/\ byName' # byName => (queues' = queues /\ workers' = workers)
     /\ \A e \in Enqueued' :
          \/ e \in Enqueued
          \/ /\ \A d \in Enqueued : d.eid # e.eid
             /\ e.job = sched.job
     /\ \A w \in Workers :
          workers'[w].pc # "idle" =>
            \/ workers[w].pc # "idle" /\ workers'[w].entry = workers[w].entry
            \/ workers[w].pc = "idle" /\ workers'[w].entry \in Enqueued]_vars

\* A job was updated or removed in the store while an entry of it was in a
\* queue: a worker has run the command of that entry to the end, and the
\* entry it holds is not what the store holds for the job now.
C13_Witness ==
  \E w \in Workers :
    /\ workers[w].pc = "fin"
    /\ workers[w].entry \in Enqueued
    /\ Stored(workers[w].entry.job.name) # workers[w].entry.job
    /\ \A h \in Handlers : handlers[h].pc = "idle"

\* The workers whose saveCompletedJob returns in this step.
Saving(w) == workers[w].pc = "locked" /\ workers'[w].pc = "idle"

\* Whether the row holds the fields of the completed job of the worker.
SameRecord(row, wk) ==
  /\ row # NoRow
  /\ row.name = wk.entry.job.name
  /\ row.error = wk.error
  /\ row.exit = wk.exit
  /\ row.started = wk.started
  /\ row.finished = wk.finished
  /\ row.eid = wk.entry.eid

\* C14.  Completion-store durability: a name that has no row has no last
\* completion; a step in which a save for a name commits makes the last
\* completion of that name the saved record, and every other step, commits
\* for other names and failed saves included, leaves the last completion of
\* the name as it was.
C14_Durability ==
  /\ [](\A n \in JobNames :
          (\A i \in 1..Len(db.jobs) : db.jobs[i].name # n)
            => getLastCompleted(db, n) = NoRow)
  /\ [][\A n \in JobNames :
          IF \E w \in Workers : /\ Saving(w)
                                /\ db' # db
                                /\ workers[w].entry.job.name = n
          THEN \A w \in Workers :
                 (Saving(w) /\ workers[w].entry.job.name = n)
                   => SameRecord(getLastCompleted(db', n), workers[w])
          ELSE getLastCompleted(db', n) = getLastCompleted(db, n)]_vars

\* Two saves of one job have committed with different results, and the
\* last completion of the job is the second.
C14_Witness ==
  \E n \in JobNames :
    /\ IdsOf(db, n) = {1, 2}
    /\ JobRow(db, 1).exit # JobRow(db, 2).exit
    /\ getLastCompleted(db, n) = JobRow(db, 2)

\* C15.  Atomic save: a save that commits adds one completed_jobs row and
\* the lines of both log files and nothing else; a save during which a log
\* file cannot be read, also after lines of the other file were stored,
\* leaves the database as it was (no row, no line, the same last
\* completion); no line is ever stored without the row of its save.
C15_AtomicSave ==
  /\ [](\A i \in 1..Len(db.logs) :
          \E k \in 1..Len(db.jobs) :
            db.jobs[k].id = db.logs[i].completed_job_id)
  /\ [][\A w \in Workers :
          Saving(w) =>
            IF LogFileFails(workers[w].files.stdout)
                 \/ LogFileFails(workers[w].files.stderr)
            THEN db' = db
            ELSE \/ db' = db
                 \/ /\ db'.jobs = Append(db.jobs, RowOf(db, workers[w]))
                    /\ db'.logs =
                         db.logs
                           \o LogRows(Len(db.jobs) + 1, "stdout",
                                      workers[w].files.stdout)
                           \o LogRows(Len(db.jobs) + 1, "stderr",
                                      workers[w].files.stderr)]_vars

\* A save has been rolled back after an earlier one had committed: the
\* entry whose save was attempted last has no row, and the database holds
\* the one row and its lines.
C15_Witness ==
  /\ Len(db.jobs) = 1
  /\ db.logs # <<>>
  /\ \A w \in Workers : workers[w].pc = "idle"
  /\ \E q \in DOMAIN queues :
       /\ done[q].attempted > 0
       /\ \A i \in 1..Len(db.jobs) : db.jobs[i].eid # done[q].attempted

\* The greatest limit the log query is asked with.
MaxLimit == 3

Streams == {"stdout", "stderr"}

\* The lines of the stream stored with the completed job id, in the order
\* of their line numbers.
LinesOfRun(table, id, stream) ==
  LET rows == {r \in Range(table.logs) :
                 r.completed_job_id = id /\ r.log_name = stream}
  IN [i \in 1..Cardinality(rows) |->
        (CHOOSE r \in rows : r.line_number = i).line]

\* The last n elements of a sequence, all of it when it has fewer.
LastN(seq, n) ==
  SubSeq(seq, IF n < Len(seq) THEN Len(seq) - n + 1 ELSE 1, Len(seq))

\* C16.  The log query: for every name, stream and limit, getJobLogs
\* returns the last `limit` lines of the stream of the newest completed job
\* of the name, in the order of their line numbers (all its lines when
\* there are fewer), and nothing of any earlier run; nothing for a name
\* without a completed job.
C16_LatestRunLines ==
  \A n \in JobNames, st \in Streams, limit \in 0..MaxLimit :
    getJobLogs(db, n, st, limit) =
      IF IdsOf(db, n) = {} THEN <<>>
      ELSE LastN(LinesOfRun(db, getLastCompleted(db, n).id, st), limit)

\* A job has run twice with output: the query with limit 1 returns the
\* last of the two stdout lines of the second run, and the first run had a
\* stdout line too.
C16_Witness ==
  \E n \in JobNames :
    /\ IdsOf(db, n) = {1, 2}
    /\ LinesOfRun(db, 1, "stdout") = <<"l3">>
    /\ LinesOfRun(db, 2, "stdout") = <<"l1", "l2">>
    /\ getJobLogs(db, n, "stdout", 1) = <<"l2">>

\* What the notification policy asks for: whether the notifier is to be
\* called for a completed job under the mode.
Wanted(mode, cj) ==
  \/ mode = "always"
  \/ mode = "on-failure" /\ (cj.exit # 0 \/ cj.error # "")

\* C17.  Notification policy: the notifier is called only in the step in
\* which runQueueHead completes an entry, for that entry and not for one it
\* was called for before, and it is called in that step exactly when the
\* mode of the entry is always, or is on-failure and the record has a
\* non-zero exit status or an error message (as that of a command that
\* could not be started has); with mode never it is not called.
C17_NotificationPolicy ==
  [][/\ \A w \in Workers :
          Saving(w) =>
            LET n == workers[w].entry.job.name
            IN IF Wanted(workers[w].entry.job.notify, workers[w])
               THEN /\ notified[n] < workers[w].entry.eid
                    /\ notified'[n] = workers[w].entry.eid
               ELSE notified'[n] = notified[n]
     /\ \A n \in JobNames :
          notified'[n] # notified[n] =>
            \E w \in Workers : Saving(w) /\ workers[w].entry.job.name = n]_vars

\* A job with mode on-failure whose command could not be started (an error
\* message, exit status 0) has completed and the notifier was called for
\* it, while a job with mode never has failed without a call.
C17_Witness ==
  /\ \A w \in Workers : workers[w].pc = "idle"
  /\ \E i \in 1..Len(db.jobs) :
       /\ db.jobs[i].name = "a"
       /\ byName[SchedRef]["a"].notify = "on-failure"
       /\ db.jobs[i].exit = 0
       /\ db.jobs[i].error # ""
       /\ notified["a"] = db.jobs[i].eid
  /\ \E i \in 1..Len(db.jobs) :
       /\ db.jobs[i].name = "b"
       /\ db.jobs[i].exit # 0
       /\ notified["b"] = 0

\* Whether the config.star binds False to the name enabled.
SetsEnabledFalse(file) ==
  /\ Loadable(file)
  /\ "enabled" \in DOMAIN file.content
  /\ ~file.content.enabled

\* C18 as stated.  Disabled jobs: a job whose config.star sets enabled to
\* false is stored as not enabled, and no entry made from that content of
\* the file is ever in a queue.
C18_DisabledNeverEnqueued ==
  \A n \in JobNames :
    (SetsEnabledFalse(files[n]) /\ Stored(n) # NoJob
       /\ Stored(n).ver = files[n].ver)
      => /\ ~Stored(n).enable
         /\ \A e \in Enqueued :
              ~(e.job.name = n /\ e.job.ver = files[n].ver)

\* Nothing under the configuration root was ever changed, the config.star
\* of a job sets enabled to false, and an entry of the job is in a queue.
C18_EnqueuedThoughDisabled ==
  /\ writes = 0
  /\ \E e \in Enqueued :
       /\ SetsEnabledFalse(files[e.job.name])
       /\ e.job.ver = files[e.job.name].ver
       /\ Stored(e.job.name).enable

\* The variables an env file sets, with substEnv to substitute from; none
\* for a file that does not exist.
VarsOf(file, substEnv) == Parse(file.lines, EmptyEnv, substEnv).env

\* Whether the env file is there and does not parse.
Malformed(file, substEnv) ==
  file.state = "ok" /\ Parse(file.lines, EmptyEnv, substEnv).err

\* The environment after the process environment and global.env.
GlobalLayer ==
  [k \in DOMAIN ProcessEnv \cup DOMAIN VarsOf(envFiles.global, ProcessEnv) |->
     IF k \in DOMAIN VarsOf(envFiles.global, ProcessEnv)
     THEN VarsOf(envFiles.global, ProcessEnv)[k]
     ELSE ProcessEnv[k]]

\* C19.  Environment layering: the env of every stored job holds exactly
\* the variables of the process environment, of global.env and of the job's
\* job.env, and the job directory variable; the job directory variable is
\* the job directory whatever the layers say, any other variable has the
\* value of job.env when job.env sets it, else that of global.env when
\* global.env sets it, else that of the process.  An env file that does not
\* exist is no error: a job whose config.star loads and whose env files
\* are absent or well-formed is stored by the load at start-up.
C19_EnvLayering ==
  /\ \A n \in JobNames :
       Stored(n) # NoJob =>
         LET mine == VarsOf(envFiles.job[n], GlobalLayer)
             glob == VarsOf(envFiles.global, ProcessEnv)
         IN /\ DOMAIN Stored(n).env =
                 DOMAIN ProcessEnv \cup DOMAIN glob \cup DOMAIN mine
                   \cup {JobDirEnvVar}
            /\ \A k \in DOMAIN Stored(n).env :
                 Stored(n).env[k] =
                   IF k = JobDirEnvVar THEN JobDirOf[n]
                   ELSE IF k \in DOMAIN mine THEN mine[k]
                   ELSE IF k \in DOMAIN glob THEN glob[k]
                   ELSE ProcessEnv[k]
  /\ \A n \in JobNames :
       (writes = 0 /\ Loadable(files[n])
          /\ ~Malformed(envFiles.global, ProcessEnv)
          /\ ~Malformed(envFiles.job[n], GlobalLayer))
         => Stored(n) # NoJob

\* A job was reloaded by the watcher with a global.env that sets MODE and
\* G and a job.env that takes X from MODE and sets the job directory
\* variable: X has the value of global.env, G and HOME are kept, and the
\* job directory variable is the job directory.  The other job has no
\* job.env and is stored.
C19_Witness ==
  /\ Stored("a") # NoJob
  /\ Stored("a").ver > 0
  /\ envFiles.job["a"].state = "ok"
  /\ {"X", "G"} \subseteq DOMAIN Stored("a").env
  /\ Stored("a").env["X"] = "global"
  /\ Stored("a").env["G"] = "1"
  /\ Stored("a").env["HOME"] = "/home/u"
  /\ Stored("a").env[JobDirEnvVar] = "/cfg/a"
  /\ envFiles.job["b"] = NoEnvFile
  /\ Stored("b") # NoJob

\* C20 as stated.  The lock of the job store is not held across predicate
\* evaluation: while the scheduler loop has read the last completion of a
\* job and is about to call its should_run, a handler of the watcher that
\* is ready to store or to remove a job can take its step.
C20_WatcherNotBlocked ==
  \A h \in Handlers :
    sched.pc = "call" =>
      /\ handlers[h].pc = "store" => ENABLED HandlerStore(h)
      /\ handlers[h].pc = "remove" => ENABLED HandlerRemove(h)

\* The scheduler loop is in the middle of a pass over the job map, about to
\* call a predicate, with another job still to come; a handler of the
\* watcher has loaded a job and cannot store it.
C20_StoreBlocked ==
  /\ sched.pc = "call"
  /\ sched.todo \ {sched.job.name} # {}
  /\ \E h \in Handlers : /\ handlers[h].pc = "store"
                          /\ ~ENABLED HandlerStore(h)

\* ------------------------------------------------------------------------
\* Further properties of the queue runner
\* ------------------------------------------------------------------------

\* C21 as stated.  The runner mutex is not held across a wait: a worker
\* that sleeps for the jitter, waits for its command, or is about to save
\* the completion record and run the notifier does not hold the mutex.
C21_NoLockAcrossWaits ==
  \A w \in Workers :
    workers[w].pc \in {"active", "run", "locked"} => mu # w

\* A worker holds the mutex with saveCompletedJob and the notifier still to
\* come; the head of another queue is ready and cannot be activated, and
\* the scheduler loop has a predicate that is true and cannot call addJob.
C21_SaveHoldsMutex ==
  \E w \in Workers :
    /\ workers[w].pc = "locked"
    /\ mu = w
    /\ \E q \in DOMAIN queues :
         /\ q # workers[w].q
         /\ HeadFree(queues[q])
         /\ ~ENABLED RunQueueHeadActivate(q)
    /\ sched.pc = "call"
    /\ IsTrue(SchedResult)
    /\ ~ENABLED SchedCallTrue

\* C22 as stated.  Scheduler loop recovery: when the scheduler loop has
\* ended on an error of the database, it is started again, so the goroutine
\* that runs schedule can take a step and predicates are evaluated again.
C22_LoopRestarted ==
  sched.pc = "stopped" => ENABLED SchedStep

\* The scheduler loop has ended because the last completion of a job could
\* not be read; the clock has moved on since, enabled jobs are in the store,
\* one of them due at the minute that has come, and no step of the loop is
\* possible.
C22_StoppedForGood ==
  /\ sched.pc = "stopped"
  /\ now > sched.current
  /\ \E n \in EnabledJobs :
       ShouldRun(byName[SchedRef][n], now, NoRow) = "true"
  /\ ~ENABLED SchedStep

\* C23.  Completion records are append-only and one per execution: no two
\* rows of completed_jobs belong to the same execution; a step leaves the
\* rows as they are or appends one row, and it appends only when a worker
\* returns from saveCompletedJob, the row holding the name and the result
\* of the execution of that worker (a command that could not be started
\* included); rows once written are never changed or removed; and a worker
\* that has run its command to the end can always go on to save.
C23_AppendOnly ==
  /\ [](\A i, j \in 1..Len(db.jobs) :
          i # j => db.jobs[i].eid # db.jobs[j].eid)
  /\ [](\A w \in Workers :
          (workers[w].pc = "locked" /\ ~LogFileFails(workers[w].files.stdout)
             /\ ~LogFileFails(workers[w].files.stderr))
            => ENABLED SaveCompletedJob(w))
  /\ [][\/ db'.jobs = db.jobs
        \/ /\ Len(db'.jobs) = Len(db.jobs) + 1
           /\ SubSeq(db'.jobs, 1, Len(db.jobs)) = db.jobs
           /\ \E w \in Workers :
                /\ Saving(w)
                /\ SameRecord(db'.jobs[Len(db'.jobs)], workers[w])]_vars

\* A job has been executed twice and both saves were accepted: the first
\* row is that of a command that could not be started, the second that of
\* a command that ended with a non-zero exit status, and the first row is
\* still as it was written.
C23_Witness ==
  /\ Len(db.jobs) = 2
  /\ db.jobs[1].name = db.jobs[2].name
  /\ db.jobs[1].eid = 1
  /\ db.jobs[2].eid = 2
  /\ db.jobs[1].error = ErrorOf("nostart")
  /\ db.jobs[1].exit = 0
  /\ db.jobs[2].exit = ExitStatusOf("exit7")
  /\ \A w \in Workers : workers[w].pc = "idle"

\* C24.  Error reporting order: what runQueueHead returns for an execution
\* is the notifier's error if the notifier failed, else the error of the
\* save if the save failed, else the error of the command if it failed,
\* and nil only when none of the three failed; by then the worker has
\* released the mutex, its entry is out of the queue, and the queue is
\* active only if another worker has taken its next head.
C24_ReportOrder ==
  \A w \in Workers :
    workers[w].pc = "return" =>
      LET wk == workers[w]
      IN /\ wk.returned = "notify" <=> wk.notifyErr
         /\ wk.returned = "save" <=> (~wk.notifyErr /\ wk.saveErr)
         /\ wk.returned = "run" <=>
              (~wk.notifyErr /\ ~wk.saveErr /\ wk.error # "")
         /\ wk.returned = "" <=>
              (~wk.notifyErr /\ ~wk.saveErr /\ wk.error = "")
         /\ mu # w
         /\ \A e \in Enqueued : e.eid # wk.entry.eid
         /\ queues[wk.q].activeJob =>
              \E v \in Workers : v # w /\ Busy(v) /\ workers[v].q = wk.q

\* The command of a job failed, its save failed and its notifier failed:
\* runQueueHead returns the notifier's error.  The queue is empty and not
\* active.
C24_Witness ==
  \E w \in Workers :
    /\ workers[w].pc = "return"
    /\ workers[w].error # ""
    /\ workers[w].saveErr
    /\ workers[w].notifyErr
    /\ workers[w].returned = "notify"
    /\ ~queues[workers[w].q].activeJob
    /\ queues[workers[w].q].jobs = <<>>


\* C27.  addJob: a call of addJob for a job leaves in the queue map every
\* queue that was there and the queue named by the job's queue setting, or
\* by its name when the setting is empty, made empty and not active if it
\* was not there; it appends the job at the tail of that queue when the job
\* allows duplicates or the queue holds no entry of its name, and leaves
\* the entries as they are otherwise; it changes no active flag and no
\* other queue.  No step ever takes a queue out of the map.
C27_AddJobFrame ==
  [][/\ DOMAIN queues \subseteq DOMAIN queues'
     /\ (sched.pc = "call" /\ evals' # evals /\ SchedResult = "true") =>
          LET job == sched.job
              q == IF job.queue = "" THEN job.name ELSE job.queue
              old == IF q \in DOMAIN queues THEN queues[q]
                     ELSE [activeJob |-> FALSE, jobs |-> <<>>]
              had == \E i \in 1..Len(old.jobs) :
                       old.jobs[i].job.name = job.name
          IN /\ DOMAIN queues' = DOMAIN queues \cup {q}
             /\ queues'[q].activeJob = old.activeJob
             /\ IF job.duplicate \/ ~had
                THEN /\ Len(queues'[q].jobs) = Len(old.jobs) + 1
                     /\ SubSeq(queues'[q].jobs, 1, Len(old.jobs)) = old.jobs
                     /\ queues'[q].jobs[Len(old.jobs) + 1].job = job
                ELSE queues'[q].jobs = old.jobs
             /\ \A p \in DOMAIN queues \ {q} : queues'[p] = queues[p]]_vars

\* Two queues have been made.  The job of the one forbids duplicates and was
\* due again while its entry was running: the queue is active and holds
\* that one entry.  The other queue holds the entry appended to it, and is
\* not active.
C27_Witness ==
  /\ DOMAIN queues = {"a", "shared"}
  /\ queues["a"].activeJob
  /\ Len(queues["a"].jobs) = 1
  /\ Cardinality({e \in evals : e[1] = "a"}) >= 2
  /\ Len(queues["shared"].jobs) = 1
  /\ ~queues["shared"].activeJob


\* A worker that is executing the head of queue q: between the activation
\* and the step that removes the head.
Executing(w, q) ==
  /\ workers[w].pc \in {"active", "run", "fin"}
  /\ workers[w].q = q

\* C28 as stated.  The running job stays at the front: in every state in
\* which a queue is active, the queue is not empty and its first entry is
\* the entry a worker is executing.
C28_RunningAtFront ==
  \A q \in DOMAIN queues :
    queues[q].activeJob =>
      /\ Len(queues[q].jobs) > 0
      /\ \E w \in Workers :
           Executing(w, q) /\ workers[w].entry = queues[q].jobs[1]

\* A queue is active and its head is at the front, and every worker is
\* idle: the worker that activated the head has returned because a log
\* file could not be made, and nobody is executing the entry.
C28_ActiveWithoutWorker ==
  /\ \A w \in Workers : workers[w].pc = "idle"
  /\ \E q \in DOMAIN queues :
       /\ queues[q].activeJob
       /\ Len(queues[q].jobs) > 0
       /\ done[q].eid = 0


\* ------------------------------------------------------------------------
\* Further properties of the scheduler loop
\* ------------------------------------------------------------------------

\* C29 as stated.  Each minute is evaluated once: over the first step of
\* schedule and all its ticks, the predicate of a job is called at most
\* once for any minute.
C29_OncePerMinute ==
  \A n \in JobNames : \A t \in 0..now : EvalCount(n, t) <= 1

\* The scheduler loop was started in a minute at which a job that allows
\* duplicates is due, and at no other minute since; the first tick is
\* through, and the queue of the job holds two entries made for that one
\* minute.
C29_TwiceForStart ==
  /\ sched.pc = "wait"
  /\ \E q \in DOMAIN queues : \E i, j \in 1..Len(queues[q].jobs) :
       /\ i < j
       /\ queues[q].jobs[i].job.name = queues[q].jobs[j].job.name
       /\ queues[q].jobs[i].job.should_run = "minute1"
       /\ queues[q].jobs[i].at = queues[q].jobs[j].at
       /\ sched.current = queues[q].jobs[i].at + 1

\* ------------------------------------------------------------------------
\* Further properties of the job store and the watcher
\* ------------------------------------------------------------------------

\* Whether this step is a call of remove for job n: by a handler after a
\* failed update, or by the watcher for a config.star that is gone.
RemoveCalled(n) ==
  \/ \E h \in Handlers : /\ handlers[h].pc = "remove"
                          /\ handlers[h].name = n
                          /\ handlers'[h].pc = "idle"
  \/ /\ events # <<>>
     /\ events' = Tail(events)
     /\ Head(events) = [kind |-> "config", name |-> n]
     /\ files[n] = NoFile

\* C25.  remove on the job store: for every store the watcher comes to
\* hold and every name, remove returns no error, deletes the entry of the
\* name and leaves every other entry as it is when the name is present,
\* and returns the not-found error and leaves the store as it is when the
\* name is absent; and a step in which remove is called changes the
\* watcher's map in just that way and no other map.
C25_Remove ==
  /\ [](\A n \in JobNames :
          LET r == remove(byName[watchRef], n)
          IN IF Stored(n) # NoJob
             THEN /\ r.err = ""
                  /\ r.store[n] = NoJob
                  /\ \A k \in JobNames \ {n} : r.store[k] = Stored(k)
             ELSE /\ r.err = "notfound"
                  /\ r.store = byName[watchRef])
  /\ [][\A n \in JobNames :
          RemoveCalled(n) =>
            /\ byName'[watchRef][n] = NoJob
            /\ \A k \in JobNames \ {n} :
                 byName'[watchRef][k] = byName[watchRef][k]
            /\ \A r \in DOMAIN byName \ {watchRef} : byName'[r] = byName[r]
            /\ DOMAIN byName' = DOMAIN byName]_vars

\* A config.star was made unloadable and then deleted: remove was called
\* for the job twice, the second time with the job absent, and the other
\* job is still in the store.
C25_Witness ==
  /\ WatcherQuiet
  /\ \E n \in JobNames :
       /\ files[n] = NoFile
       /\ n \in failed
       /\ Stored(n) = NoJob
       /\ \E k \in JobNames \ {n} : Stored(k) # NoJob /\ Stored(k).ver = 0

\* C26.  A failed update leaves the store unchanged: update fails exactly
\* when the config.star is missing or does not evaluate or an env file
\* does not parse, and the step in which it fails changes no map, the
\* entry the job had before included; the step in which it succeeds puts
\* the loaded job under its name, leaves every other entry alone, and
\* returns Updated when the name was in the map and Added when it was not.
C26_Update ==
  [][\A h \in Handlers :
       /\ (handlers[h].pc = "load" /\ handlers'[h].pc # "load") =>
            LET n == handlers[h].name
                bad == \/ files[n] = NoFile
                       \/ files[n].content = Broken
                       \/ Malformed(envFiles.global, ProcessEnv)
                       \/ Malformed(envFiles.job[n], GlobalLayer)
            IN IF bad
               THEN /\ handlers'[h].pc = "remove"
                    /\ byName' = byName
               ELSE handlers'[h].pc = "store"
       /\ (handlers[h].pc = "store" /\ handlers'[h].pc = "log") =>
            LET n == handlers[h].name
                r == handlers[h].ref
            IN /\ handlers'[h].res =
                    IF byName[r][n] # NoJob THEN "updated" ELSE "added"
               /\ byName'[r][n] = handlers[h].loaded
               /\ \A k \in JobNames \ {n} : byName'[r][k] = byName[r][k]
               /\ \A x \in DOMAIN byName \ {r} : byName'[x] = byName[x]]_vars

\* An update of a job has failed and left the entry of the job where it
\* was, for handleUpdate to remove; after the removal a later update of the
\* job succeeded and returned Added, while the job whose job.env does not
\* parse never came into the store.
C26_Witness ==
  \E h \in Handlers :
    /\ handlers[h].pc = "log"
    /\ handlers[h].res = "added"
    /\ writes = 2
    /\ Stored(handlers[h].name).ver = 2
    /\ \E k \in JobNames :
         /\ Malformed(envFiles.job[k], GlobalLayer)
         /\ Stored(k) = NoJob

\* C30 as stated.  New job directory: when watchChanges takes the create
\* event of a directory <config_root>/<job> that holds a config.star, it
\* hands the debouncer an update of that job, the one that puts the job in
\* the store.
C30_CreateSchedulesUpdate ==
  [][(/\ events # <<>>
      /\ Head(events).kind = "dir"
      /\ files[Head(events).name] # NoFile
      /\ events' = Tail(events))
     => pending' = [kind |-> "update", name |-> Head(events).name]]_vars

\* A directory with a config.star that loads was moved into the
\* configuration root and nothing else was changed, the watcher has nothing
\* left to do, no update of the job has failed, and the job is not in the
\* store.
C30_NewJobNotLoaded ==
  \E n \in JobNames :
    /\ writes = 1
    /\ Loadable(files[n])
    /\ files[n].ver = 1
    /\ WatcherQuiet
    /\ n \notin failed
    /\ Stored(n) = NoJob

\* ------------------------------------------------------------------------
\* Further properties of reloads, queues and logs
\* ------------------------------------------------------------------------

\* C31 as stated.  Atomic replacement on global.env reload: the reload
\* replaces the job map in one step, so a job whose config.star loads before
\* and after the change of global.env is in the store at every instant.
C31_AtomicReload ==
  \A n \in JobNames : Updatable(n, files, envFiles) => Stored(n) # NoJob

\* The reload after a change of global.env has cleared the store and not yet
\* loaded a job whose config.star loads, and the scheduler loop is in the
\* middle of a tick, holding the read lock of the store.
C31_EmptyDuringReload ==
  /\ SchedHoldsRLock
  /\ \E h \in Handlers : handlers[h].kind = "all" /\ handlers[h].pc = "walk"
  /\ \A n \in JobNames : Updatable(n, files, envFiles) /\ Stored(n) = NoJob

\* The working directory runQueueHead gives the subprocess: the entry of the
\* job directory variable in the job's env, the empty string when there is
\* none.
Cwd(job) ==
  IF JobDirEnvVar \in DOMAIN job.env THEN job.env[JobDirEnvVar] ELSE ""

\* C32 as stated.  JOB_DIR is always present: every JobConfig in the store
\* has the job directory variable in its env, with the job directory as its
\* value, also when the module bound a new mapping to env, so the working
\* directory of the subprocess is the job directory.
C32_JobDirPresent ==
  \A n \in JobNames :
    Stored(n) # NoJob =>
      /\ JobDirEnvVar \in DOMAIN Stored(n).env
      /\ Cwd(Stored(n)) = JobDirOf[n]

\* The store holds a job loaded from a config.star that binds a new mapping
\* to env: its env is that mapping, the job directory variable is not in it,
\* and the working directory of its subprocess is the empty string.
C32_JobDirLost ==
  \E n \in JobNames :
    /\ Stored(n) # NoJob
    /\ files[n] # NoFile
    /\ Stored(n).ver = files[n].ver
    /\ files[n].content = KNewEnv
    /\ Stored(n).env = KNewEnv.env
    /\ Cwd(Stored(n)) = ""

\* The workers that have taken a head of the queue and not yet lowered the
\* flag.
Holding(q) ==
  {w \in Workers : workers[w].pc \in {"picked", "script"} /\ workers[w].q = q}

\* The entry of the number was appended and is nowhere: not in a queue, not
\* with a worker, and no entry of that or a greater number was executed.
Discarded(eid) ==
  /\ eid \in 1..nextEid
  /\ \A q \in DOMAIN queues :
       \A i \in 1..Len(queues[q].jobs) : queues[q].jobs[i].eid # eid
  /\ \A w \in Workers :
       workers[w].pc = "idle" \/ workers[w].entry.eid # eid
  /\ \A q \in QueueNames : done[q].eid < eid

\* C33 as stated.  Atomic pick in the runner that reads under the read
\* lock: no two workers hold a head of the same queue at once, and no entry
\* that addJob appended is dropped from its queue without being executed.
C33_AtomicPick ==
  /\ \A q \in QueueNames : Cardinality(Holding(q)) <= 1
  /\ \A eid \in 1..MaxEnq : ~Discarded(eid)

\* Two workers run the script of the same entry of one queue, and the entry
\* that addJob appended after they had copied the queue is gone from it
\* without having been executed.
C33_BothStarted ==
  \E v, w \in Workers :
    /\ v # w
    /\ workers[v].pc = "script"
    /\ workers[w].pc = "script"
    /\ workers[v].q = workers[w].q
    /\ workers[v].entry.eid = workers[w].entry.eid
    /\ \E eid \in 1..MaxEnq : Discarded(eid)

\* C34 as stated.  A queue is always released: in the step in which a
\* worker that had activated a head returns from runQueueHead, the active
\* flag of its queue is down and the entry it had activated is not in the
\* queue any more, whichever return it takes.
C34_ReleasedOnReturn ==
  [][\A w \in Workers :
       (workers[w].pc # "idle" /\ workers'[w].pc = "idle") =>
         /\ ~queues'[workers[w].q].activeJob
         /\ \A i \in 1..Len(queues'[workers[w].q].jobs) :
              queues'[workers[w].q].jobs[i].eid # workers[w].entry.eid]_vars

\* The worker that activated the head of a queue has returned because a log
\* file could not be made: every worker is idle and the mutex is free, the
\* queue is still active with that entry, which was never executed, at its
\* head and another entry waiting behind it, and the head of the queue
\* cannot be activated.
C34_LeftActive ==
  /\ \A w \in Workers : workers[w].pc = "idle"
  /\ mu = Nobody
  /\ \E q \in DOMAIN queues :
       /\ queues[q].activeJob
       /\ Len(queues[q].jobs) > 1
       /\ queues[q].jobs[1].job.log
       /\ done[q].eid < queues[q].jobs[1].eid
       /\ ~ENABLED RunQueueHeadActivate(q)

\* The entry of the number is in a queue, waiting or activated.
InQueue(eid) ==
  \E q \in DOMAIN queues :
    \E i \in 1..Len(queues[q].jobs) : queues[q].jobs[i].eid = eid

\* C35 as stated.  Progress of queues: under fair scheduling of the runner
\* and with commands that return, every entry appended to a queue is in the
\* end activated, executed and removed from its queue.
C35_Progress ==
  \A eid \in 1..MaxEnq : InQueue(eid) ~> ~InQueue(eid)

\* Nothing is left for the runner to do and there never will be: every
\* worker is idle, the mutex is free, a queue is active with an entry that
\* was never executed at its head, and no step of the runner is enabled.
C35_Stuck ==
  /\ \A w \in Workers : workers[w].pc = "idle"
  /\ mu = Nobody
  /\ \E q \in DOMAIN queues :
       /\ queues[q].activeJob
       /\ InQueue(queues[q].jobs[1].eid)
       /\ done[q].eid < queues[q].jobs[1].eid
  /\ \A q \in QueueNames : ~ENABLED RunQueueHeadActivate(q)

\* C36 as stated.  No reload is lost to debouncing: a callback the debouncer
\* holds is replaced only by a callback that does its work too, the update
\* of the same job or the reload of all jobs, and never by the update of
\* another job.
C36_NoReloadLost ==
  [][(pending # NoCallback /\ pending' # NoCallback /\ pending' # pending)
       => pending'.kind = "all"]_vars

\* The config.star of job a was saved and then that of job b, both load,
\* and the watcher has nothing left to do: the store holds job b as saved
\* and job a as it was loaded at the start.
C36_UpdateDropped ==
  /\ WatcherQuiet
  /\ writes = 2
  /\ Loadable(files["a"]) /\ files["a"].ver = 1
  /\ Loadable(files["b"]) /\ files["b"].ver = 2
  /\ Stored("b") # NoJob /\ Stored("b").ver = 2
  /\ Stored("a") # NoJob /\ Stored("a").ver = 0

\* C37 as stated.  No enqueue on a stale completion: an entry of a job that
\* forbids duplicates and is due only when its last completion is a day old
\* is in a queue only if the job has no completion on record or the latest
\* is a day older than the instant the entry was made for.
C37_NoStaleEnqueue ==
  \A q \in DOMAIN queues :
    \A i \in 1..Len(queues[q].jobs) :
      LET e == queues[q].jobs[i]
          lc == getLastCompleted(db, e.job.name)
      IN (e.job.should_run = "stale" /\ ~e.job.duplicate) =>
           (lc = NoRow \/ e.at - lc.finished >= OneDay)

\* The job that is due once a day, and was never reloaded, has two
\* completions on record that ended less than a day apart, both of entries
\* the scheduler made on finding no completion of the job.
C37_RanTwice ==
  \E i, j \in 1..Len(db.jobs) :
    /\ i < j
    /\ db.jobs[i].name = "a"
    /\ db.jobs[j].name = "a"
    /\ db.jobs[i].eid # db.jobs[j].eid
    /\ db.jobs[j].finished - db.jobs[i].finished < OneDay
    /\ files["a"].content = KStale

\* The steps of addDueJobsToQueue while it holds the read lock of the job
\* store.
SchedInLock ==
  \/ \E n \in JobNames : SchedSkipDisabled(n)
  \/ \E n \in JobNames : SchedRead(n)
  \/ SchedCallTrue
  \/ SchedCallFalse
  \/ SchedCallError
  \/ SchedUnlock

\* C38.  Deadlock freedom: the worker that holds the mutex of the runner
\* can always take its next step and give the mutex back, and the scheduler
\* loop, while it holds the read lock of the job store, can take its next
\* step unless the mutex of the runner is held; so whoever waits for a lock
\* waits for a task that does not wait for it.
C38_DeadlockFree ==
  /\ mu # Nobody =>
       \E w \in Workers :
         /\ mu = w
         /\ ENABLED (SaveCompletedJob(w) \/ SaveCompletedJobError(w))
  /\ SchedHoldsRLock => (mu # Nobody \/ ENABLED SchedInLock)

\* All three kinds of task are at a lock: a worker holds the mutex of the
\* runner, the scheduler loop holds the read lock of the store and is about
\* to call addJob, and a debounced callback has loaded a job and waits for
\* the write lock of the store.
C38_Witness ==
  /\ mu # Nobody
  /\ sched.pc = "call"
  /\ IsTrue(SchedResult)
  /\ ~ENABLED SchedCallTrue
  /\ \E h \in Handlers :
       handlers[h].pc = "store" /\ ~ENABLED HandlerStore(h)

\* C39 as stated.  Saved log lines belong to their run: when the completion
\* of an execution is saved, the log lines stored with it are lines of log
\* files that this execution opened; an execution that opened none, its job
\* having log off, stores no line.
C39_LinesOfTheRun ==
  [][\A w \in Workers :
       (workers[w].pc = "locked" /\ workers'[w].pc = "idle"
          /\ Len(db'.logs) > Len(db.logs))
         => /\ workers[w].entry.job.log
            /\ stateDir[workers[w].entry.job.name].by
                 = workers[w].entry.eid]_vars

\* The completion of an execution of job a, which has log off, is on record
\* together with log lines, the lines an earlier run of the service had left
\* in the state directory of the job.
C39_StaleLinesSaved ==
  \E i \in 1..Len(db.jobs) :
    /\ db.jobs[i].name = "a"
    /\ ~files["a"].content.log
    /\ stateDir["a"].by = 0
    /\ \E k \in 1..Len(db.logs) :
         /\ db.logs[k].completed_job_id = db.jobs[i].id
         /\ db.logs[k].line = "old1"

\* C40 as stated.  One execution per job name at a time: no two workers run
\* the command of the same job at once, also when the job was reloaded with
\* another queue while an entry made under the queue it had before is
\* waiting or running.
C40_OnePerName ==
  \A v, w \in Workers :
    (v # w /\ workers[v].pc = "run" /\ workers[w].pc = "run")
      => workers[v].entry.job.name # workers[w].entry.job.name

\* Two workers run the command of job a at once, one for the entry of the
\* queue the job had at the start and one for an entry of the shared queue,
\* and the log files the first had opened have been truncated by the second.
C40_Overlap ==
  \E v, w \in Workers :
    /\ workers[v].pc = "run" /\ workers[v].q = "a"
    /\ workers[w].pc = "run" /\ workers[w].q = "shared"
    /\ workers[v].entry.job.name = "a"
    /\ workers[w].entry.job.name = "a"
    /\ workers[v].entry.eid < workers[w].entry.eid
    /\ stateDir["a"] = [files |-> QuietFiles, by |-> workers[w].entry.eid]

====
